---- MODULE Spec2Model ----
(***************************************************************************)
(* A model of vpr/SRC/draw/draw.cpp: the highlight state machine driven by *)
(* mouse clicks and view toggles (specification Spec), the flattening of a *)
(* net's traceback into partial routes and the per-pair classifier of      *)
(* draw_partial_route (SpecRoute), the route-tree search of                *)
(* trace_routed_connection_rr_nodes (SpecPath) and the hit test of         *)
(* draw_check_rr_node_hit over the drawn pin squares and channel boxes     *)
(* (SpecHit).                                                              *)
(***************************************************************************)
EXTENDS Integers, Sequences, FiniteSets, TLC

OPEN == -1

\* The colors the highlight state takes (DEFAULT_RR_NODE_COLOR is BLACK).
DEFAULT_RR_NODE_COLOR == "BLACK"
DRIVES_IT_COLOR == "DRIVES_IT_COLOR"

\* enum e_draw_nets
DRAW_NO_NETS == "DRAW_NO_NETS"
DRAW_NETS == "DRAW_NETS"
DRAW_LOGICAL_CONNECTIONS == "DRAW_LOGICAL_CONNECTIONS"

\* enum e_draw_rr_toggle: DRAW_NO_RR, DRAW_ALL_RR, DRAW_ALL_BUT_BUFFERS_RR,
\* DRAW_NODES_AND_SBOX_RR, DRAW_NODES_RR, then DRAW_RR_TOGGLE_MAX.
DRAW_NO_RR == 0
DRAW_RR_TOGGLE_MAX == 5

\* enum e_draw_congestion: DRAW_NO_CONGEST, DRAW_CONGESTED, DRAW_CONGESTED_AND_USED,
\* then DRAW_CONGEST_MAX.
DRAW_NO_CONGEST == 0
DRAW_CONGESTED == 1
DRAW_CONGESTED_AND_USED == 2
DRAW_CONGEST_MAX == 3

\* enum e_draw_crit_path
DRAW_NO_CRIT_PATH == "DRAW_NO_CRIT_PATH"
DRAW_CRIT_PATH_FLYLINES == "DRAW_CRIT_PATH_FLYLINES"
DRAW_CRIT_PATH_FLYLINES_DELAYS == "DRAW_CRIT_PATH_FLYLINES_DELAYS"
DRAW_CRIT_PATH_ROUTING == "DRAW_CRIT_PATH_ROUTING"
DRAW_CRIT_PATH_ROUTING_DELAYS == "DRAW_CRIT_PATH_ROUTING_DELAYS"

\* enum pic_type
NO_PICTURE == "NO_PICTURE"
PLACEMENT == "PLACEMENT"
ROUTING == "ROUTING"

\* enum e_draw_net_type, the argument of drawroute
ALL_NETS == "ALL_NETS"
HIGHLIGHTED == "HIGHLIGHTED"

VARIABLES
    rr_node,           \* the RR graph: rr_node[n] = [type, xlow, ylow, xhigh, yhigh, ptc_num, edges]
    trace_head,        \* trace_head[inet]: the net's traceback, <<>> if unrouted
    color,             \* draw_state->draw_rr_node[n].color
    node_highlighted,  \* draw_state->draw_rr_node[n].node_highlighted
    net_color,         \* draw_state->net_color[inet]
    show_nets,         \* draw_state->show_nets
    draw_rr_toggle,    \* draw_state->draw_rr_toggle
    pc,                \* position of the click handler, "idle" between events
    hit_node,          \* highlight_rr_nodes' hit_node while the handler runs
    toggled,           \* history: the last selecting click made with the RR graph shown,
                       \* and the highlight state of the node's neighbours before it
    draw_route_type,   \* draw_state->draw_route_type: "GLOBAL" or "DETAILED"
    rt_pc,             \* position of drawroute and draw_partial_route
    tptr,              \* drawroute's tptr, an index into the net's traceback (0 is NULL)
    rr_nodes_to_draw,  \* drawroute's vector of the nodes of the current partial route
    partial,           \* draw_partial_route's argument while a call of it runs
    part_i,            \* draw_partial_route's loop index i, counted from 1 as TLA+ indexes
    chanx_track,       \* draw_partial_route's static next-track table of the x channels
    chany_track,       \* and of the y channels
    handoffs,          \* history: the vectors handed to draw_partial_route so far
    drawn,             \* history: what each pair processed so far drew, and its tracks
    rt_root,           \* the route tree traceback_to_route_tree returns
    sink_rr_node,      \* the RR node trace_routed_connection_rr_nodes looks for
    rr_nodes_on_path,  \* its vector of collected nodes
    on_path_to_sink,   \* what the outermost trace_routed_connection_rr_nodes_recurr returned
    path_pc,           \* position of trace_routed_connection_rr_nodes
    rt_allocated,      \* the route-tree nodes allocated and not freed: <<query, tree node>>
    rt_structs,        \* TRUE while the route-tree timing structures are allocated
    rt_queries,        \* history: the calls of trace_routed_connection_rr_nodes so far
    block_type,        \* the block type of the grid tiles: [num_pins, capacity, pinloc]
    chan_width,        \* chan_width: [x_list, y_list], the tracks of each channel
    draw_coords,       \* draw_coords: [tile_width, pin_size, tile_x, tile_y]
    click,             \* the world coordinates <<click_x, click_y>> of the mouse click
    hit_result,        \* what draw_check_rr_node_hit returned for the click
    hit_pc,            \* position of the hit test
    block_color,       \* draw_state->block_color[bnum]
    sub_block_selected,\* get_selected_sub_block_info().has_selection()
    show_graphics,     \* draw_state->show_graphics
    highlighted_before,\* history: what was highlighted when deselect_all was last entered
    reset_pc,          \* "idle" between events, "routed" while a new RR graph awaits
                       \* init_draw_coords, "reset" when init_draw_coords has returned,
                       \* "deselected" or "ctrl_click" inside highlight_blocks
    clicked,           \* history: the RR nodes earlier clicks hit, the node the last
                       \* click hit, whether its transition selected the node and
                       \* whether nets were shown when it came
    g_clbs_nlist,      \* g_clbs_nlist.net[inet].pins[ipin].block, the driver's block first
    pic_on_screen,     \* draw_state->pic_on_screen: NO_PICTURE, PLACEMENT or ROUTING
    show_congestion,   \* draw_state->show_congestion
    show_crit_path,    \* draw_state->show_crit_path
    setup_timing_info, \* draw_state->setup_timing_info is not null
    buttons,           \* the buttons create_button made and destroy_button has not removed
    button_faults,     \* history: the buttons created while they existed or destroyed
                       \* while they did not
    untimed_call       \* history: some update_screen call came without timing info

hlVars == <<trace_head, color, node_highlighted, net_color,
            show_nets, draw_rr_toggle, pc, hit_node, toggled>>

routeVars == <<draw_route_type, rt_pc, tptr, rr_nodes_to_draw, partial, part_i,
               chanx_track, chany_track, handoffs, drawn>>

pathVars == <<rt_root, sink_rr_node, rr_nodes_on_path, on_path_to_sink, path_pc,
              rt_allocated, rt_structs, rt_queries>>

hitVars == <<block_type, chan_width, draw_coords, click, hit_result, hit_pc>>

resetVars == <<block_color, sub_block_selected, show_graphics, highlighted_before, reset_pc,
               clicked, g_clbs_nlist>>

screenVars == <<pic_on_screen, show_congestion, show_crit_path, setup_timing_info, buttons,
                button_faults, untimed_call>>

vars == <<rr_node, hlVars, routeVars, pathVars, hitVars, resetVars, screenVars>>

\* The globals read everywhere.
num_rr_nodes == Cardinality(DOMAIN rr_node)
Node == DOMAIN rr_node
Net == DOMAIN trace_head

(***************************************************************************)
(* draw_highlight_fan_in_fan_out (lines 1897-1936).  Both loops read the   *)
(* hit node's color again at every edge, as the code does.                 *)
(***************************************************************************)
\* FanOutLoop with the reset of node_highlighted left out of the WHITE branch.
RECURSIVE FanOutLoop_keeps_flag(_, _, _, _)
FanOutLoop_keeps_flag(c, h, hit, iedge) ==
    IF iedge > Len(rr_node[hit].edges) THEN [color |-> c, hl |-> h]
    ELSE LET fanout_node == rr_node[hit].edges[iedge] IN
         IF c[hit] = "MAGENTA"
         THEN FanOutLoop_keeps_flag([c EXCEPT ![fanout_node] = DRIVES_IT_COLOR],
                                    [h EXCEPT ![fanout_node] = TRUE], hit, iedge + 1)
         ELSE IF c[hit] = "WHITE"
         THEN FanOutLoop_keeps_flag([c EXCEPT ![fanout_node] = DEFAULT_RR_NODE_COLOR],
                                    h, hit, iedge + 1)
         ELSE FanOutLoop_keeps_flag(c, h, hit, iedge + 1)

RECURSIVE FanOutLoop(_, _, _, _)
FanOutLoop(c, h, hit, iedge) ==
    IF iedge > Len(rr_node[hit].edges) THEN [color |-> c, hl |-> h]
    ELSE LET fanout_node == rr_node[hit].edges[iedge] IN
         IF c[hit] = "MAGENTA"
         THEN FanOutLoop([c EXCEPT ![fanout_node] = DRIVES_IT_COLOR],
                         [h EXCEPT ![fanout_node] = TRUE], hit, iedge + 1)
         ELSE IF c[hit] = "WHITE"
         THEN FanOutLoop([c EXCEPT ![fanout_node] = DEFAULT_RR_NODE_COLOR],
                         [h EXCEPT ![fanout_node] = FALSE], hit, iedge + 1)
         ELSE FanOutLoop(c, h, hit, iedge + 1)

\* FanInLoop with the fan-out loop's color in the MAGENTA branch.
RECURSIVE FanInLoop_fanout_color(_, _, _, _, _)
FanInLoop_fanout_color(c, h, hit, inode, iedge) ==
    IF inode >= num_rr_nodes THEN [color |-> c, hl |-> h]
    ELSE IF iedge > Len(rr_node[inode].edges)
    THEN FanInLoop_fanout_color(c, h, hit, inode + 1, 1)
    ELSE IF rr_node[inode].edges[iedge] # hit
    THEN FanInLoop_fanout_color(c, h, hit, inode, iedge + 1)
    ELSE IF c[hit] = "MAGENTA"
    THEN FanInLoop_fanout_color([c EXCEPT ![inode] = DRIVES_IT_COLOR],
                                [h EXCEPT ![inode] = TRUE], hit, inode, iedge + 1)
    ELSE IF c[hit] = "WHITE"
    THEN FanInLoop_fanout_color([c EXCEPT ![inode] = DEFAULT_RR_NODE_COLOR],
                                [h EXCEPT ![inode] = FALSE], hit, inode, iedge + 1)
    ELSE FanInLoop_fanout_color(c, h, hit, inode, iedge + 1)

RECURSIVE FanInLoop(_, _, _, _, _)
FanInLoop(c, h, hit, inode, iedge) ==
    IF inode >= num_rr_nodes THEN [color |-> c, hl |-> h]
    ELSE IF iedge > Len(rr_node[inode].edges) THEN FanInLoop(c, h, hit, inode + 1, 1)
    ELSE IF rr_node[inode].edges[iedge] # hit THEN FanInLoop(c, h, hit, inode, iedge + 1)
    ELSE IF c[hit] = "MAGENTA"
    THEN FanInLoop([c EXCEPT ![inode] = "BLUE"],
                   [h EXCEPT ![inode] = TRUE], hit, inode, iedge + 1)
    ELSE IF c[hit] = "WHITE"
    THEN FanInLoop([c EXCEPT ![inode] = DEFAULT_RR_NODE_COLOR],
                   [h EXCEPT ![inode] = FALSE], hit, inode, iedge + 1)
    ELSE FanInLoop(c, h, hit, inode, iedge + 1)

\* draw_highlight_fan_in_fan_out made transitive: the fan-out of every fan-out
\* node gets the fan-out color too.
draw_highlight_fan_in_fan_out_transitive(c, h, hit) ==
    LET out == FanOutLoop(c, h, hit, 1)
        one == FanInLoop(out.color, out.hl, hit, 0, 1)
        hop1 == {rr_node[hit].edges[i] : i \in 1 .. Len(rr_node[hit].edges)}
        hop2 == UNION {{rr_node[m].edges[i] : i \in 1 .. Len(rr_node[m].edges)} : m \in hop1}
    IN  IF c[hit] = "MAGENTA"
        THEN [color |-> [n \in DOMAIN c |-> IF n \in hop2 THEN DRIVES_IT_COLOR ELSE one.color[n]],
              hl |-> [n \in DOMAIN h |-> IF n \in hop2 THEN TRUE ELSE one.hl[n]]]
        ELSE one

draw_highlight_fan_in_fan_out(c, h, hit) ==
    LET out == FanOutLoop(c, h, hit, 1)
    IN  FanInLoop(out.color, out.hl, hit, 0, 1)

(***************************************************************************)
(* The click transition of highlight_rr_nodes (lines 2037-2058).           *)
(***************************************************************************)
\* click_transition with the deselecting branch leaving node_highlighted set.
click_transition_keeps_flag(c, h, hit) ==
    IF c[hit] # "MAGENTA"
    THEN [color |-> [c EXCEPT ![hit] = "MAGENTA"], hl |-> [h EXCEPT ![hit] = TRUE]]
    ELSE [color |-> [c EXCEPT ![hit] = "WHITE"], hl |-> h]

click_transition(c, h, hit) ==
    IF c[hit] # "MAGENTA"
    THEN [color |-> [c EXCEPT ![hit] = "MAGENTA"], hl |-> [h EXCEPT ![hit] = TRUE]]
    ELSE [color |-> [c EXCEPT ![hit] = "WHITE"], hl |-> [h EXCEPT ![hit] = FALSE]]

(***************************************************************************)
(* highlight_nets (lines 1866-1889): per net, the scan of its traceback.   *)
(***************************************************************************)
RECURSIVE highlight_net_scan(_, _, _, _)

\* The scan stopping at the first MAGENTA node as it does at a WHITE one.
highlight_net_scan_first_match(c, tr, i, ncol) ==
    IF i > Len(tr) THEN ncol
    ELSE IF c[tr[i]] = "MAGENTA" THEN "MAGENTA"
    ELSE IF c[tr[i]] = "WHITE" THEN "BLACK"
    ELSE highlight_net_scan(c, tr, i + 1, ncol)

highlight_net_scan(c, tr, i, ncol) ==
    IF i > Len(tr) THEN ncol
    ELSE IF c[tr[i]] = "MAGENTA" THEN highlight_net_scan(c, tr, i + 1, "MAGENTA")
    ELSE IF c[tr[i]] = "WHITE" THEN "BLACK"
    ELSE highlight_net_scan(c, tr, i + 1, ncol)

highlight_nets(c, nc) ==
    [inet \in DOMAIN nc |-> highlight_net_scan(c, trace_head[inet], 1, nc[inet])]

(***************************************************************************)
(* drawroute's walk of one traceback (lines 1640-1679): the sequences      *)
(* handed to draw_partial_route, in order, and the nodes whose color the   *)
(* walk sets (every entry the for(;;) loop reads at its top).  i is the    *)
(* index of tptr.  A traceback that ends without a SINK makes the code     *)
(* read through a null tptr.                                               *)
(***************************************************************************)
RECURSIVE drawroute_loop(_, _, _, _, _)
drawroute_loop(tr, i, to_draw, handed, visited) ==
    IF i + 1 > Len(tr)
    THEN [status |-> "null_deref", handoffs |-> handed, visited |-> visited]
    ELSE LET inode == tr[i + 1]
             seq == Append(to_draw, inode)
             vis == Append(visited, inode)
         IN  IF rr_node[inode].type = "SINK"
             THEN IF i + 2 > Len(tr)
                  THEN [status |-> "ok",
                        handoffs |-> Append(Append(handed, seq), <<>>),
                        visited |-> vis]
                  ELSE drawroute_loop(tr, i + 2, <<tr[i + 2]>>,
                                      Append(handed, seq), vis)
             ELSE drawroute_loop(tr, i + 1, seq, handed, vis)

drawroute_net(tr) == drawroute_loop(tr, 1, <<tr[1]>>, <<>>, <<>>)

\* draw_if_net_highlighted (lines 1845-1860)
draw_if_net_highlighted(ncol) ==
    ncol \in {"MAGENTA", DRIVES_IT_COLOR, "DRIVEN_BY_IT_COLOR",
              "crit_path_HEAD", "crit_path_TAIL"}

\* The colors drawroute leaves (lines 1630-1661), net by net.
RECURSIVE drawroute(_, _, _, _, _)
drawroute(draw_net_type, c, h, nc, inet) ==
    IF inet \notin DOMAIN nc THEN [color |-> c, hl |-> h]
    ELSE IF \/ trace_head[inet] = <<>>
            \/ (draw_net_type = HIGHLIGHTED /\ nc[inet] = "BLACK")
    THEN drawroute(draw_net_type, c, h, nc, inet + 1)
    ELSE LET vis == drawroute_net(trace_head[inet]).visited
             on == {vis[k] : k \in 1 .. Len(vis)}
         IN  IF draw_if_net_highlighted(nc[inet])
             THEN drawroute(draw_net_type,
                            [n \in DOMAIN c |-> IF n \in on THEN nc[inet] ELSE c[n]],
                            [n \in DOMAIN h |-> IF n \in on THEN TRUE ELSE h[n]],
                            nc, inet + 1)
             ELSE drawroute(draw_net_type,
                            [n \in DOMAIN c |-> IF n \in on THEN DEFAULT_RR_NODE_COLOR ELSE c[n]],
                            h, nc, inet + 1)

\* The colors draw_rr leaves (lines 791-861).
draw_rr(c, h, nc, rr_toggle) ==
    IF rr_toggle = DRAW_NO_RR
    THEN drawroute(HIGHLIGHTED, c, h, nc, 0)
    ELSE LET c1 == [n \in DOMAIN c |->
                      IF n \notin Node \/ h[n] THEN c[n]
                      ELSE IF rr_node[n].type \in {"CHANX", "CHANY"} THEN DEFAULT_RR_NODE_COLOR
                      ELSE IF rr_node[n].type = "OPIN" THEN "PINK"
                      ELSE IF rr_node[n].type = "IPIN" THEN "LIGHTSKYBLUE"
                      ELSE c[n]]
         IN  drawroute(HIGHLIGHTED, c1, h, nc, 0)

\* redraw_screen drawing the routed nets through draw_rr in every view.
redraw_screen_by_draw_rr(c, h, nc, nets, rr_toggle) == draw_rr(c, h, nc, rr_toggle)

\* redraw_screen with the routing on screen (lines 315-333), as drawscreen calls it.
redraw_screen(c, h, nc, nets, rr_toggle) ==
    IF nets = DRAW_NETS
    THEN drawroute(ALL_NETS, c, h, nc, 0)
    ELSE draw_rr(c, h, nc, rr_toggle)

\* deselect_all (lines 2260-2283): the node and the net colors.
deselect_all_nodes == [color |-> [n \in Node |-> DEFAULT_RR_NODE_COLOR],
                       hl |-> [n \in Node |-> FALSE]]
deselect_all_nets == [inet \in Net |-> "BLACK"]

(***************************************************************************)
(* The RR graphs of the highlight model.  Node 0 is the SOURCE and the     *)
(* last node the SINK of the one net; the nodes between them are the pins  *)
(* and the wire of its route, each driving the next.  A graph has these    *)
(* edges and at most one more edge (a, b), between any two nodes, last in  *)
(* a's edge list: a second fan-out, a fan-in, an edge back (two wires      *)
(* joined by a pass transistor), a self edge.  A self edge is also placed  *)
(* first in the list: the propagation depends on its position.             *)
(***************************************************************************)
NumHlNodes == 4
NumNets == 1

HlNode == 0 .. NumHlNodes - 1

hl_type(n) ==
    IF n = 0 THEN "SOURCE"
    ELSE IF n = NumHlNodes - 1 THEN "SINK"
    ELSE IF n % 3 = 1 THEN "OPIN"
    ELSE IF n % 3 = 2 THEN "CHANX"
    ELSE "IPIN"

route_edges(n) == IF n < NumHlNodes - 1 THEN <<n + 1>> ELSE <<>>

hl_rr_node(edges) ==
    [n \in HlNode |-> [type |-> hl_type(n), xlow |-> 1, ylow |-> 1, xhigh |-> 1,
                       yhigh |-> 1, ptc_num |-> n, edges |-> edges[n]]]

HlGraphs ==
    {hl_rr_node([n \in HlNode |-> route_edges(n)])}
    \cup {hl_rr_node([n \in HlNode |-> IF n = a THEN route_edges(n) \o <<b>>
                                       ELSE route_edges(n)]) : a \in HlNode, b \in HlNode}
    \cup {hl_rr_node([n \in HlNode |-> IF n = a THEN <<a>> \o route_edges(n)
                                       ELSE route_edges(n)]) : a \in HlNode}

\* The traceback of the routed net: SOURCE, the route, SINK.
routed_trace == [i \in 1 .. NumHlNodes |-> i - 1]

NoToggle == [node |-> OPEN, phase |-> "none", color |-> <<>>, hl |-> <<>>]

\* No net is being drawn: the route variables at rest.
RouteIdle ==
    /\ draw_route_type = "DETAILED"
    /\ rt_pc = "idle"
    /\ tptr = 0
    /\ rr_nodes_to_draw = <<>>
    /\ partial = <<>>
    /\ part_i = 0
    /\ chanx_track = <<>>
    /\ chany_track = <<>>
    /\ handoffs = <<>>
    /\ drawn = <<>>

\* No routed connection is being traced: the path variables at rest.
PathIdle ==
    /\ rt_root = <<>>
    /\ sink_rr_node = OPEN
    /\ rr_nodes_on_path = <<>>
    /\ on_path_to_sink = FALSE
    /\ path_pc = "idle"
    /\ rt_allocated = {}
    /\ rt_structs = FALSE
    /\ rt_queries = 0

\* No block is on screen: the block colors at rest, graphics enabled.
NoHistory == [nodes |-> FALSE, nets |-> FALSE, blocks |-> FALSE, sub_block |-> FALSE]

NoClicks == [before |-> {}, last |-> OPEN, selected |-> FALSE, nets_shown |-> FALSE]

ResetIdle ==
    /\ highlighted_before = NoHistory
    /\ block_color = <<>>
    /\ sub_block_selected = FALSE
    /\ show_graphics = TRUE
    /\ reset_pc = "idle"
    /\ clicked = NoClicks
    /\ g_clbs_nlist = <<>>

\* The routing picture is on screen, put there by an update_screen call that
\* brought timing info: all five buttons exist and no view is toggled on.
RoutingOnScreen ==
    /\ pic_on_screen = ROUTING
    /\ show_congestion = DRAW_NO_CONGEST
    /\ show_crit_path = DRAW_NO_CRIT_PATH
    /\ setup_timing_info = TRUE
    /\ buttons = {"Toggle Nets", "Blk Internal", "Toggle RR", "Congestion", "Crit. Path"}
    /\ button_faults = {}
    /\ untimed_call = FALSE

\* No click is being located: the hit-test variables at rest.
HitIdle ==
    /\ block_type = <<>>
    /\ chan_width = <<>>
    /\ draw_coords = <<>>
    /\ click = <<>>
    /\ hit_result = OPEN
    /\ hit_pc = "idle"

\* alloc_draw_structs and init_draw_coords leave every color at its default;
\* no view is toggled on yet.
Init ==
    /\ rr_node \in HlGraphs
    /\ trace_head \in [0 .. NumNets - 1 -> {<<>>, routed_trace}]
    /\ color = [n \in HlNode |-> DEFAULT_RR_NODE_COLOR]
    /\ node_highlighted = [n \in HlNode |-> FALSE]
    /\ net_color = [inet \in 0 .. NumNets - 1 |-> "BLACK"]
    /\ show_nets = DRAW_NO_NETS
    /\ draw_rr_toggle = DRAW_NO_RR
    /\ pc = "idle"
    /\ hit_node = OPEN
    /\ toggled = NoToggle
    /\ RouteIdle
    /\ PathIdle
    /\ HitIdle
    /\ ResetIdle
    /\ RoutingOnScreen

\* t_draw_state::reset_nets_congestion_and_rr, called by the three view toggles:
\* nets, congestion and routing resources off (toggle_nets' comment: "Also
\* disables drawing of routing resources").
reset_nets_congestion_and_rr ==
    [show_nets |-> DRAW_NO_NETS, draw_rr_toggle |-> DRAW_NO_RR,
     show_congestion |-> DRAW_NO_CONGEST]

\* The frame of the view toggles: what of the screen state they leave alone.
toggleFrame == <<pic_on_screen, show_crit_path, setup_timing_info, buttons, button_faults,
                 untimed_call>>

\* drawscreen as the button callbacks and the click handlers reach it (lines
\* 233-336): with the placement on screen no RR node is recolored, otherwise
\* redraw_screen takes its routing branch.
drawscreen(c, h, nc, nets, rr_toggle) ==
    IF pic_on_screen = PLACEMENT THEN [color |-> c, hl |-> h]
    ELSE redraw_screen(c, h, nc, nets, rr_toggle)

\* toggle_nets without the call of reset_nets_congestion_and_rr.
toggle_nets_without_reset ==
    /\ pc = "idle"
    /\ LET new_state == IF show_nets = DRAW_NO_NETS THEN DRAW_NETS
                        ELSE IF show_nets = DRAW_NETS THEN DRAW_LOGICAL_CONNECTIONS
                        ELSE DRAW_NO_NETS
           redrawn == drawscreen(color, node_highlighted, net_color,
                                 new_state, draw_rr_toggle)
       IN  /\ show_nets' = new_state
           /\ color' = redrawn.color
           /\ node_highlighted' = redrawn.hl
    /\ toggled' = NoToggle
    /\ UNCHANGED <<routeVars, pathVars, hitVars, resetVars, toggleFrame, rr_node, trace_head,
                   net_color, pc, hit_node, draw_rr_toggle, show_congestion>>

\* toggle_nets (lines 338-365), with the redraw it ends in.
toggle_nets ==
    /\ pc = "idle"
    /\ LET new_state == IF show_nets = DRAW_NO_NETS THEN DRAW_NETS
                        ELSE IF show_nets = DRAW_NETS THEN DRAW_LOGICAL_CONNECTIONS
                        ELSE DRAW_NO_NETS
           reset == reset_nets_congestion_and_rr
           redrawn == drawscreen(color, node_highlighted, net_color,
                                 new_state, reset.draw_rr_toggle)
       IN  /\ show_nets' = new_state
           /\ draw_rr_toggle' = reset.draw_rr_toggle
           /\ show_congestion' = reset.show_congestion
           /\ color' = redrawn.color
           /\ node_highlighted' = redrawn.hl
    /\ toggled' = NoToggle
    /\ UNCHANGED <<routeVars, pathVars, hitVars, resetVars, toggleFrame, rr_node, trace_head,
                   net_color, pc, hit_node>>

\* toggle_rr (lines 367-385), with the redraw it ends in.
toggle_rr ==
    /\ pc = "idle"
    /\ LET new_state == (draw_rr_toggle + 1) % DRAW_RR_TOGGLE_MAX
           reset == reset_nets_congestion_and_rr
           redrawn == drawscreen(color, node_highlighted, net_color,
                                 reset.show_nets, new_state)
       IN  /\ show_nets' = reset.show_nets
           /\ draw_rr_toggle' = new_state
           /\ show_congestion' = reset.show_congestion
           /\ color' = redrawn.color
           /\ node_highlighted' = redrawn.hl
    /\ toggled' = NoToggle
    /\ UNCHANGED <<routeVars, pathVars, hitVars, resetVars, toggleFrame, rr_node, trace_head,
                   net_color, pc, hit_node>>

\* The nodes one hop from n: its fan-out and its fan-in.
FanOut(n) == {rr_node[n].edges[i] : i \in 1 .. Len(rr_node[n].edges)}
FanIn(n) == {p \in Node : n \in FanOut(p)}

\* What draw_check_rr_node_hit can return: OPEN, or a pin or a wire.
HitResults == {OPEN} \cup {n \in Node : rr_node[n].type \in {"IPIN", "OPIN", "CHANX", "CHANY"}}

(***************************************************************************)
(* A click outside every block.  The handler runs to completion before the *)
(* next event; it is modelled in four steps so that the states between its *)
(* parts can be seen.  hit is what draw_check_rr_node_hit returns for the  *)
(* click's coordinates.                                                    *)
(* Step 1, highlight_blocks (lines 2099-2101, 2141-2146): deselect_all     *)
(* unless Ctrl is held, then the call of highlight_rr_nodes.               *)
(***************************************************************************)
Click(ctrl_pressed, hit) ==
    /\ pc = "idle"
    /\ LET c0 == IF ctrl_pressed THEN color ELSE deselect_all_nodes.color
           h0 == IF ctrl_pressed THEN node_highlighted ELSE deselect_all_nodes.hl
           nc0 == IF ctrl_pressed THEN net_color ELSE deselect_all_nets
       IN  /\ color' = c0
           /\ node_highlighted' = h0
           /\ net_color' = nc0
           /\ toggled' =
                 IF hit = OPEN \/ draw_rr_toggle = DRAW_NO_RR THEN NoToggle
                 ELSE IF c0[hit] # "MAGENTA"
                 THEN [node |-> hit, phase |-> "selected",
                       color |-> [m \in FanOut(hit) \cup FanIn(hit) |-> color[m]],
                       hl |-> [m \in FanOut(hit) \cup FanIn(hit) |-> node_highlighted[m]]]
                 ELSE IF toggled.phase = "selected" /\ toggled.node = hit
                 THEN [toggled EXCEPT !.phase = "deselected"]
                 ELSE NoToggle
    /\ hit_node' = hit
    /\ pc' = "highlight_rr_nodes"
    /\ UNCHANGED <<routeVars, pathVars, hitVars, resetVars, screenVars, rr_node, trace_head, show_nets, draw_rr_toggle>>

\* Step 2, lines 2021-2058 and 2067-2072: with no view that shows nodes, or no
\* node hit, the handler only redraws; otherwise it makes the transition.
Transition ==
    /\ pc = "highlight_rr_nodes"
    /\ IF (draw_rr_toggle = DRAW_NO_RR /\ show_nets = DRAW_NO_NETS) \/ hit_node = OPEN
       THEN LET redrawn == redraw_screen(color, node_highlighted, net_color,
                                       show_nets, draw_rr_toggle)
            IN  /\ color' = redrawn.color
                /\ node_highlighted' = redrawn.hl
                /\ hit_node' = OPEN
                /\ pc' = "idle"
       ELSE LET t == click_transition(color, node_highlighted, hit_node)
            IN  /\ color' = t.color
                /\ node_highlighted' = t.hl
                /\ pc' = "transition"
                /\ UNCHANGED hit_node
    /\ UNCHANGED <<routeVars, pathVars, hitVars, resetVars, screenVars, rr_node, trace_head, net_color, show_nets, draw_rr_toggle, toggled>>

\* Step 3 with the call of draw_highlight_fan_in_fan_out left out.
Propagate_skipped ==
    /\ pc = "transition"
    /\ pc' = "propagate"
    /\ UNCHANGED <<routeVars, pathVars, hitVars, resetVars, screenVars, rr_node, trace_head, color, node_highlighted, net_color, show_nets,
                   draw_rr_toggle, hit_node, toggled>>

\* Step 3, lines 2060-2064: the fan-in/fan-out propagation, if the RR graph is shown.
Propagate ==
    /\ pc = "transition"
    /\ LET p == IF draw_rr_toggle # DRAW_NO_RR
                THEN draw_highlight_fan_in_fan_out(color, node_highlighted, hit_node)
                ELSE [color |-> color, hl |-> node_highlighted]
       IN  /\ color' = p.color
           /\ node_highlighted' = p.hl
    /\ pc' = "propagate"
    /\ UNCHANGED <<routeVars, pathVars, hitVars, resetVars, screenVars, rr_node, trace_head, net_color, show_nets, draw_rr_toggle,
                   hit_node, toggled>>

\* Step 4, lines 2074-2079: highlight_nets if nets are shown, then drawscreen.
FinishClick ==
    /\ pc = "propagate"
    /\ LET nc1 == IF show_nets # DRAW_NO_NETS THEN highlight_nets(color, net_color)
                  ELSE net_color
           redrawn == redraw_screen(color, node_highlighted, nc1, show_nets, draw_rr_toggle)
       IN  /\ net_color' = nc1
           /\ color' = redrawn.color
           /\ node_highlighted' = redrawn.hl
    /\ pc' = "idle"
    /\ hit_node' = OPEN
    /\ UNCHANGED <<routeVars, pathVars, hitVars, resetVars, screenVars, rr_node, trace_head, show_nets, draw_rr_toggle, toggled>>

Next ==
    \/ toggle_nets
    \/ toggle_rr
    \/ \E ctrl_pressed \in BOOLEAN, hit \in HitResults : Click(ctrl_pressed, hit)
    \/ Transition
    \/ Propagate
    \/ FinishClick

Spec == Init /\ [][Next]_vars

(***************************************************************************)
(* The highlight claims, checked under Spec.                               *)
(***************************************************************************)
Neighbours(n) == FanOut(n) \cup FanIn(n)
RRShown == draw_rr_toggle # DRAW_NO_RR

\* C1 (as stated): with the RR graph shown, a click that selects N followed at once
\* by a click that deselects N leaves every fan-out and fan-in node of N with the
\* color and node_highlighted flag it had before the first click.
C1_AllNeighboursRestored ==
    (pc = "idle" /\ toggled.phase = "deselected") =>
        \A m \in DOMAIN toggled.color :
            color[m] = toggled.color[m] /\ node_highlighted[m] = toggled.hl[m]

\* The color a redraw of the RR graph gives an unhighlighted node of n's type
\* (draw_rr, lines 811-826), the default color for the types it leaves alone.
unhighlighted_color(n) ==
    IF rr_node[n].type = "OPIN" THEN "PINK"
    ELSE IF rr_node[n].type = "IPIN" THEN "LIGHTSKYBLUE"
    ELSE DEFAULT_RR_NODE_COLOR

\* C1 (amended): the same two clicks leave every fan-out and fan-in node of N that
\* before the first click was not highlighted and had the color of an unhighlighted
\* node of its type with the color and flag it had then.
C1_UnhighlightedNeighboursRestored ==
    (pc = "idle" /\ toggled.phase = "deselected") =>
        \A m \in DOMAIN toggled.color :
            (~toggled.hl[m] /\ toggled.color[m] = unhighlighted_color(m)) =>
                color[m] = toggled.color[m] /\ node_highlighted[m] = toggled.hl[m]

\* C1 witness: both clicks are done, and N has a neighbour that was not highlighted
\* before the first click and one whose color the first click changed.
C1_Witness ==
    /\ pc = "idle"
    /\ toggled.phase = "deselected"
    /\ \E m \in DOMAIN toggled.color : ~toggled.hl[m] /\ toggled.color[m] = "PINK"
    /\ \E m \in DOMAIN toggled.color :
           ~toggled.hl[m] /\ rr_node[m].type = "SINK" /\ toggled.color[m] = DEFAULT_RR_NODE_COLOR
    /\ \A m \in DOMAIN toggled.color : color[m] = toggled.color[m] /\ ~node_highlighted[m]

\* C7: a click that highlight_rr_nodes processes and that hits N selects N (MAGENTA,
\* highlighted) if N was not MAGENTA, and otherwise deselects it (WHITE, not
\* highlighted); a hit node always makes one of the two transitions.
C7_ClickTransition ==
    [][(pc = "highlight_rr_nodes" /\ hit_node # OPEN
            /\ ~(draw_rr_toggle = DRAW_NO_RR /\ show_nets = DRAW_NO_NETS)) =>
       /\ pc' = "transition"
       /\ color[hit_node] # "MAGENTA" =>
            (color'[hit_node] = "MAGENTA" /\ node_highlighted'[hit_node] = TRUE)
       /\ color[hit_node] = "MAGENTA" =>
            (color'[hit_node] = "WHITE" /\ node_highlighted'[hit_node] = FALSE)]_vars

\* C7 witness: a deselecting transition has been made (N was MAGENTA, is WHITE).
C7_Witness ==
    pc = "transition" /\ color[hit_node] = "WHITE" /\ ~node_highlighted[hit_node]

\* The trace positions whose node is SELECTED or DESELECTED-TRANSIENT.
marked_positions(tr) == {i \in 1 .. Len(tr) : color[tr[i]] \in {"MAGENTA", "WHITE"}}
has_color(tr, col) == \E i \in 1 .. Len(tr) : color[tr[i]] = col

\* C11 (as stated): highlight_nets gives each net the color decided by the first
\* node in trace order that is MAGENTA or WHITE: MAGENTA if that node is MAGENTA,
\* BLACK if it is WHITE; a net with no such node keeps its color.
C11_FirstMatchGoverns ==
    [][(pc = "propagate" /\ show_nets # DRAW_NO_NETS) =>
       \A inet \in Net :
           LET tr == trace_head[inet]
               marked == marked_positions(tr)
               first == CHOOSE i \in marked : \A k \in marked : i <= k
           IN  net_color'[inet] =
                   IF marked = {} THEN net_color[inet]
                   ELSE IF color[tr[first]] = "MAGENTA" THEN "MAGENTA"
                   ELSE "BLACK"]_vars

\* C11 (amended): highlight_nets turns a net BLACK if its trace has a WHITE node,
\* whatever MAGENTA nodes come before it in the trace; MAGENTA if the trace has a
\* MAGENTA node and no WHITE one; a net with neither keeps its color.
C11_WhiteGoverns ==
    [][(pc = "propagate" /\ show_nets # DRAW_NO_NETS) =>
       \A inet \in Net :
           LET tr == trace_head[inet]
           IN  net_color'[inet] =
                   IF has_color(tr, "WHITE") THEN "BLACK"
                   ELSE IF has_color(tr, "MAGENTA") THEN "MAGENTA"
                   ELSE net_color[inet]]_vars

\* C11 witness: with the nets shown, highlight_nets is about to scan a net that is
\* MAGENTA and whose trace has a MAGENTA node ahead of the WHITE node just
\* deselected.
C11_Witness ==
    /\ pc = "propagate"
    /\ show_nets # DRAW_NO_NETS
    /\ \E inet \in Net :
          /\ net_color[inet] = "MAGENTA"
          /\ \E i, j \in 1 .. Len(trace_head[inet]) :
                /\ i < j
                /\ color[trace_head[inet][i]] = "MAGENTA"
                /\ color[trace_head[inet][j]] = "WHITE"
                /\ trace_head[inet][j] = hit_node

\* The nodes drawroute recolors when it draws a net: every node of the trace
\* after the first.
recolored_by_drawroute(inet) ==
    {trace_head[inet][i] : i \in 2 .. Len(trace_head[inet])}

C8_PropagationResultAnyGraph ==
    [][(pc = "transition" /\ RRShown) =>
       /\ color[hit_node] = "MAGENTA" =>
            /\ \A m \in FanOut(hit_node) :
                   color'[m] = DRIVES_IT_COLOR /\ node_highlighted'[m] = TRUE
            /\ \A q \in FanIn(hit_node) :
                   color'[q] = "BLUE" /\ node_highlighted'[q] = TRUE
       /\ color[hit_node] = "WHITE" =>
            \A m \in Neighbours(hit_node) :
                color'[m] = DEFAULT_RR_NODE_COLOR /\ node_highlighted'[m] = FALSE]_vars

\* C8 (amended): when N has no edge to itself, the propagation for a selected N
\* leaves every fan-in node BLUE and highlighted and every fan-out node that is not
\* also a fan-in node DRIVES_IT_COLOR and highlighted; for a deselected N it leaves
\* every fan-in and fan-out node default and not highlighted.
C8_PropagationResult ==
    [][(pc = "transition" /\ RRShown /\ hit_node \notin FanOut(hit_node)) =>
       /\ color[hit_node] = "MAGENTA" =>
            /\ \A m \in FanOut(hit_node) \ FanIn(hit_node) :
                   color'[m] = DRIVES_IT_COLOR /\ node_highlighted'[m] = TRUE
            /\ \A q \in FanIn(hit_node) :
                   color'[q] = "BLUE" /\ node_highlighted'[q] = TRUE
       /\ color[hit_node] = "WHITE" =>
            \A m \in Neighbours(hit_node) :
                color'[m] = DEFAULT_RR_NODE_COLOR /\ node_highlighted'[m] = FALSE]_vars

\* C8 witness: the propagation for a selected N has run in a graph where N has a
\* node that is only in its fan-out, now DRIVES_IT_COLOR, and a node that is in its
\* fan-out and its fan-in, now BLUE.
C8_Witness ==
    /\ pc = "propagate" /\ RRShown
    /\ color[hit_node] = "MAGENTA"
    /\ hit_node \notin FanOut(hit_node)
    /\ \E m \in FanOut(hit_node) \ FanIn(hit_node) : color[m] = DRIVES_IT_COLOR
    /\ \E q \in FanIn(hit_node) \cap FanOut(hit_node) : color[q] = "BLUE"

\* C9 (as stated): in every view in which the click is processed, the step after a
\* transition of N, before the redraw, is the fan-in/fan-out propagation for N.
C9_PropagationInEveryView ==
    [][pc = "transition" =>
       LET p == draw_highlight_fan_in_fan_out(color, node_highlighted, hit_node)
       IN  pc' = "propagate" /\ color' = p.color /\ node_highlighted' = p.hl]_vars

\* C9 (amended): when the RR graph is shown, the step after a transition of N,
\* before the redraw, is the fan-in/fan-out propagation for N.
C9_PropagationWhenRRShown ==
    [][(pc = "transition" /\ RRShown) =>
       LET p == draw_highlight_fan_in_fan_out(color, node_highlighted, hit_node)
       IN  pc' = "propagate" /\ color' = p.color /\ node_highlighted' = p.hl]_vars

\* C9 witness: the propagation has run after a transition, before the redraw, and
\* has highlighted a neighbour of N.
C9_Witness ==
    /\ pc = "propagate" /\ RRShown
    /\ color[hit_node] = "MAGENTA"
    /\ \E m \in Neighbours(hit_node) : color[m] = "BLUE" /\ node_highlighted[m]

\* C10: the propagation for N leaves the color and the flag of every node that is
\* neither a fan-out nor a fan-in node of N unchanged (N itself included, when it
\* has no edge to itself).
C10_OneHopFrame ==
    [][pc = "transition" =>
       \A n \in Node \ Neighbours(hit_node) :
           color'[n] = color[n] /\ node_highlighted'[n] = node_highlighted[n]]_vars

\* C10 witness: the propagation for a selected N has colored a fan-out node m, and a
\* fan-out node of m that is no neighbour of N has kept the default color.
C10_Witness ==
    /\ pc = "propagate" /\ RRShown
    /\ color[hit_node] = "MAGENTA"
    /\ \E m \in FanOut(hit_node) :
         /\ color[m] = DRIVES_IT_COLOR
         /\ \E k \in FanOut(m) \ (Neighbours(hit_node) \cup {hit_node}) :
                color[k] = DEFAULT_RR_NODE_COLOR /\ ~node_highlighted[k]

(***************************************************************************)
(* SpecRoute: drawroute draws one routed, non-global net, handing its      *)
(* traceback to draw_partial_route one partial route at a time.            *)
(*                                                                         *)
(* The RR graph is one tile's worth of routing at location (1,1): the      *)
(* net's SOURCE and OPIN, two CHANX wires and two CHANY wires, each pair   *)
(* sharing its (xlow, ylow), and two IPINs with their SINKs.  Its edges    *)
(* are the ones a routing graph has: SOURCE->OPIN, OPIN->wire, OPIN->IPIN, *)
(* wire->wire, wire->IPIN, IPIN->SINK.  The pins sit on the sides facing   *)
(* their channels, as draw_pin_to_chan_edge asserts.  direct adds an edge  *)
(* from the SOURCE to the first SINK, the graph of the two-node traceback. *)
(***************************************************************************)
RouteNodeType == <<"SOURCE", "OPIN", "CHANX", "CHANX", "CHANY", "CHANY",
                   "IPIN", "SINK", "IPIN", "SINK">>
RouteNode == 0 .. Len(RouteNodeType) - 1
rt_type(n) == RouteNodeType[n + 1]
RouteWires == {n \in RouteNode : rt_type(n) \in {"CHANX", "CHANY"}}
RouteIpins == {n \in RouteNode : rt_type(n) = "IPIN"}

\* The nodes of the set S in index order, as an edge list.
RECURSIVE edge_list(_, _)
edge_list(S, n) ==
    IF n \notin RouteNode THEN <<>>
    ELSE IF n \in S THEN <<n>> \o edge_list(S, n + 1)
    ELSE edge_list(S, n + 1)

route_fanout(n, direct) ==
    IF rt_type(n) = "SOURCE"
    THEN {m \in RouteNode : rt_type(m) = "OPIN"} \cup (IF direct THEN {7} ELSE {})
    ELSE IF rt_type(n) = "OPIN" THEN RouteWires \cup RouteIpins
    ELSE IF rt_type(n) \in {"CHANX", "CHANY"} THEN (RouteWires \ {n}) \cup RouteIpins
    ELSE IF rt_type(n) = "IPIN" THEN {n + 1}
    ELSE {}

route_rr_node(direct) ==
    [n \in RouteNode |-> [type |-> rt_type(n), xlow |-> 1, ylow |-> 1, xhigh |-> 1,
                          yhigh |-> 1, ptc_num |-> n % 2,
                          edges |-> edge_list(route_fanout(n, direct), 0)]]

(***************************************************************************)
(* The tracebacks the router leaves for the net: from the SOURCE along     *)
(* edges over nodes not yet on the route to a SINK; after a SINK the next  *)
(* branch restarts at an OPIN or a wire already on the route.              *)
(***************************************************************************)
MaxTraceLen == 9

next_traces(t) ==
    LET last == t[Len(t)]
        on == {t[i] : i \in 1 .. Len(t)}
    IN  IF rt_type(last) = "SINK"
        THEN {Append(t, r) : r \in {x \in on : rt_type(x) \in {"OPIN", "CHANX", "CHANY"}}}
        ELSE {Append(t, x) : x \in route_fanout(last, FALSE) \ on}

RECURSIVE grow_traces(_, _)
grow_traces(T, n) ==
    IF n = 0 THEN T
    ELSE grow_traces(T \cup UNION {next_traces(t) : t \in T}, n - 1)

router_traces ==
    {t \in grow_traces({<<0>>}, MaxTraceLen - 1) : rt_type(t[Len(t)]) = "SINK"}

\* The two-node traceback SOURCE, SINK of the end-to-end example.
two_node_trace == <<0, 7>>

\* channel tables not yet allocated (NULL)
NullTable == <<>>

InitRoute ==
    /\ rr_node \in {route_rr_node(direct) : direct \in BOOLEAN}
    /\ trace_head \in {[inet \in {0} |-> t] : t \in router_traces \cup {two_node_trace}}
    /\ color = [n \in RouteNode |-> DEFAULT_RR_NODE_COLOR]
    /\ node_highlighted = [n \in RouteNode |-> FALSE]
    /\ net_color \in [{0} -> {"BLACK", "MAGENTA"}]
    /\ show_nets = DRAW_NETS
    /\ draw_rr_toggle = DRAW_NO_RR
    /\ pc = "idle"
    /\ hit_node = OPEN
    /\ toggled = NoToggle
    /\ draw_route_type \in {"GLOBAL", "DETAILED"}
    /\ rt_pc = "drawroute"
    /\ tptr = 0
    /\ rr_nodes_to_draw = <<>>
    /\ partial = <<>>
    /\ part_i = 0
    /\ chanx_track = NullTable
    /\ chany_track = NullTable
    /\ handoffs = <<>>
    /\ drawn = <<>>
    /\ PathIdle
    /\ HitIdle
    /\ ResetIdle
    /\ RoutingOnScreen

\* The highlight variables drawroute does not touch.
routeFrame == <<rr_node, trace_head, net_color, show_nets, draw_rr_toggle, pc, hit_node,
                toggled, draw_route_type, pathVars, hitVars, resetVars, screenVars>>

\* find_switch searching the edges of inode for prev_inode.
find_switch_swapped(prev_inode, inode) ==
    \E i \in 1 .. Len(rr_node[inode].edges) : rr_node[inode].edges[i] = prev_inode

\* find_switch (lines 2970-2978): TRUE if prev_inode has an edge to inode; if it has
\* none the code reaches VTR_ASSERT(false).
find_switch(prev_inode, inode) ==
    \E i \in 1 .. Len(rr_node[prev_inode].edges) : rr_node[prev_inode].edges[i] = inode

\* get_track_num (lines 1811-1839) for a channel node.
get_track_num(inode, xt, yt) ==
    IF draw_route_type = "DETAILED" THEN rr_node[inode].ptc_num
    ELSE IF rr_node[inode].type = "CHANX"
    THEN xt[<<rr_node[inode].xlow, rr_node[inode].ylow>>]
    ELSE yt[<<rr_node[inode].xlow, rr_node[inode].ylow>>]

\* The reset of the two static tables at the start of draw_partial_route in the
\* global view (lines 1690-1707); in the detailed view they are left alone.
\* chanx_track is [1..nx][0..ny] and chany_track [0..nx][1..ny], with nx = ny = 1.
chanx_locs == {<<1, 0>>, <<1, 1>>}
chany_locs == {<<0, 1>>, <<1, 1>>}

reset_tracks(t, locs) ==
    IF draw_route_type = "GLOBAL" THEN [loc \in locs |-> -1] ELSE t

\* The increment of a next-track entry (lines 1735-1736, 1769-1770), with the
\* increment replaced by an assignment of the first track.
next_track_first(t, loc) == [t EXCEPT ![loc] = 0]

\* The increment of a next-track entry (lines 1735-1736, 1769-1770).
next_track(t, loc) == [t EXCEPT ![loc] = @ + 1]

\* One iteration of draw_partial_route's loop with the default branches of the
\* switches on the previous node's type (and of draw_pin_to_chan_edge) falling
\* through instead of throwing.
draw_partial_route_pair_no_throw(prev_node, inode, xt, yt) ==
    LET rr_type == rr_node[inode].type
        prev_type == rr_node[prev_node].type
        loc == <<rr_node[inode].xlow, rr_node[inode].ylow>>
        bump == draw_route_type = "GLOBAL"
        xt1 == IF rr_type = "CHANX" /\ bump THEN next_track(xt, loc) ELSE xt
        yt1 == IF rr_type = "CHANY" /\ bump THEN next_track(yt, loc) ELSE yt
        itrack == get_track_num(inode, xt1, yt1)
        out(status, calls, tracks) ==
            [status |-> status, calls |-> calls, tracks |-> tracks,
             chanx_track |-> xt1, chany_track |-> yt1]
    IN  IF ~find_switch(prev_node, inode)
        THEN [status |-> "assert_failed", calls |-> <<>>, tracks |-> <<>>,
              chanx_track |-> xt, chany_track |-> yt]
        ELSE IF rr_type = "OPIN" THEN out("ok", <<"draw_rr_pin">>, <<>>)
        ELSE IF rr_type = "IPIN"
        THEN IF prev_type = "OPIN"
             THEN out("ok", <<"draw_rr_pin", "draw_pin_to_pin">>, <<>>)
             ELSE IF prev_type \in {"CHANX", "CHANY"}
             THEN out("ok", <<"draw_rr_pin", "draw_pin_to_chan_edge">>, <<>>)
             ELSE out("ok", <<"draw_rr_pin">>, <<>>)
        ELSE IF rr_type = "CHANX"
        THEN IF prev_type = "CHANX"
             THEN out("ok", <<"draw_rr_chanx", "draw_chanx_to_chanx_edge">>, <<itrack>>)
             ELSE IF prev_type = "CHANY"
             THEN out("ok", <<"draw_rr_chanx", "draw_chanx_to_chany_edge">>,
                      <<itrack, get_track_num(prev_node, xt1, yt1)>>)
             ELSE IF prev_type = "OPIN"
             THEN out("ok", <<"draw_rr_chanx", "draw_pin_to_chan_edge">>, <<itrack>>)
             ELSE out("ok", <<"draw_rr_chanx">>, <<itrack>>)
        ELSE IF rr_type = "CHANY"
        THEN IF prev_type = "CHANX"
             THEN out("ok", <<"draw_rr_chany", "draw_chanx_to_chany_edge">>,
                      <<itrack, get_track_num(prev_node, xt1, yt1)>>)
             ELSE IF prev_type = "CHANY"
             THEN out("ok", <<"draw_rr_chany", "draw_chany_to_chany_edge">>, <<itrack>>)
             ELSE IF prev_type = "OPIN"
             THEN out("ok", <<"draw_rr_chany", "draw_pin_to_chan_edge">>, <<itrack>>)
             ELSE out("ok", <<"draw_rr_chany">>, <<itrack>>)
        ELSE out("ok", <<>>, <<>>)

\* One iteration of draw_partial_route's loop (lines 1709-1808), for the pair
\* (prev_node, inode): the drawing routines it calls, the track numbers it passes
\* them (the node's, then the previous node's), the tables, and how it ends.
draw_partial_route_pair(prev_node, inode, xt, yt) ==
    LET rr_type == rr_node[inode].type
        prev_type == rr_node[prev_node].type
        loc == <<rr_node[inode].xlow, rr_node[inode].ylow>>
        bump == draw_route_type = "GLOBAL"
        xt1 == IF rr_type = "CHANX" /\ bump THEN next_track(xt, loc) ELSE xt
        yt1 == IF rr_type = "CHANY" /\ bump THEN next_track(yt, loc) ELSE yt
        itrack == get_track_num(inode, xt1, yt1)
        out(status, calls, tracks) ==
            [status |-> status, calls |-> calls, tracks |-> tracks,
             chanx_track |-> xt1, chany_track |-> yt1]
    IN  IF ~find_switch(prev_node, inode)
        THEN [status |-> "assert_failed", calls |-> <<>>, tracks |-> <<>>,
              chanx_track |-> xt, chany_track |-> yt]
        ELSE IF rr_type = "OPIN" THEN out("ok", <<"draw_rr_pin">>, <<>>)
        ELSE IF rr_type = "IPIN"
        THEN IF prev_type = "OPIN"
             THEN out("ok", <<"draw_rr_pin", "draw_pin_to_pin">>, <<>>)
             ELSE IF prev_type \in {"CHANX", "CHANY"}
             THEN out("ok", <<"draw_rr_pin", "draw_pin_to_chan_edge">>, <<>>)
             ELSE out("vpr_throw", <<"draw_rr_pin">>, <<>>)
        ELSE IF rr_type = "CHANX"
        THEN IF prev_type = "CHANX"
             THEN out("ok", <<"draw_rr_chanx", "draw_chanx_to_chanx_edge">>, <<itrack>>)
             ELSE IF prev_type = "CHANY"
             THEN out("ok", <<"draw_rr_chanx", "draw_chanx_to_chany_edge">>,
                      <<itrack, get_track_num(prev_node, xt1, yt1)>>)
             ELSE IF prev_type = "OPIN"
             THEN out("ok", <<"draw_rr_chanx", "draw_pin_to_chan_edge">>, <<itrack>>)
             ELSE out("vpr_throw", <<"draw_rr_chanx">>, <<itrack>>)
        ELSE IF rr_type = "CHANY"
        THEN IF prev_type = "CHANX"
             THEN out("ok", <<"draw_rr_chany", "draw_chanx_to_chany_edge">>,
                      <<itrack, get_track_num(prev_node, xt1, yt1)>>)
             ELSE IF prev_type = "CHANY"
             THEN out("ok", <<"draw_rr_chany", "draw_chany_to_chany_edge">>, <<itrack>>)
             ELSE IF prev_type = "OPIN"
             THEN out("ok", <<"draw_rr_chany", "draw_pin_to_chan_edge">>, <<itrack>>)
             ELSE out("vpr_throw", <<"draw_rr_chany">>, <<itrack>>)
        ELSE out("ok", <<>>, <<>>)

\* The call draw_partial_route(seq): the tables are reset and the loop starts at
\* the second node (the code's i = 1).
call_draw_partial_route(seq, next_pc) ==
    /\ partial' = seq
    /\ handoffs' = Append(handoffs, seq)
    /\ chanx_track' = reset_tracks(chanx_track, chanx_locs)
    /\ chany_track' = reset_tracks(chany_track, chany_locs)
    /\ part_i' = 1
    /\ rt_pc' = next_pc

\* drawroute, lines 1630-1644: the net is routed and not global; tptr is set to the
\* head of its traceback and the first node is pushed.  With HIGHLIGHTED a net
\* colored BLACK would be skipped; nets shown, the call is drawroute(ALL_NETS).
drawroute_begin ==
    /\ rt_pc = "drawroute"
    /\ tptr' = 1
    /\ rr_nodes_to_draw' = <<trace_head[0][1]>>
    /\ rt_pc' = "loop"
    /\ UNCHANGED <<routeFrame, color, node_highlighted, partial, part_i, chanx_track,
                   chany_track, handoffs, drawn>>

\* One pass of the for(;;) loop up to the SINK test (lines 1645-1666): the next
\* traceback entry is recolored and pushed; a SINK hands the vector on.
drawroute_step ==
    /\ rt_pc = "loop"
    /\ IF tptr + 1 > Len(trace_head[0])
       THEN /\ rt_pc' = "null_deref"
            /\ UNCHANGED <<tptr, rr_nodes_to_draw, color, node_highlighted, partial, part_i,
                           chanx_track, chany_track, handoffs>>
       ELSE LET inode == trace_head[0][tptr + 1]
                seq == Append(rr_nodes_to_draw, inode)
            IN  /\ tptr' = tptr + 1
                /\ rr_nodes_to_draw' = seq
                /\ IF draw_if_net_highlighted(net_color[0])
                   THEN /\ color' = [color EXCEPT ![inode] = net_color[0]]
                        /\ node_highlighted' = [node_highlighted EXCEPT ![inode] = TRUE]
                   ELSE /\ color' = [color EXCEPT ![inode] = DEFAULT_RR_NODE_COLOR]
                        /\ UNCHANGED node_highlighted
                /\ IF rr_node[inode].type = "SINK"
                   THEN call_draw_partial_route(seq, "partial")
                   ELSE UNCHANGED <<rt_pc, partial, part_i, chanx_track, chany_track,
                                    handoffs>>
    /\ UNCHANGED <<routeFrame, drawn>>

\* One iteration of draw_partial_route's loop.
draw_partial_route_step ==
    /\ rt_pc \in {"partial", "last_partial"}
    /\ part_i < Len(partial)
    /\ LET r == draw_partial_route_pair(partial[part_i], partial[part_i + 1],
                                        chanx_track, chany_track)
       IN  /\ chanx_track' = r.chanx_track
           /\ chany_track' = r.chany_track
           /\ drawn' = Append(drawn, [call |-> Len(handoffs), prev_node |-> partial[part_i],
                                      inode |-> partial[part_i + 1], status |-> r.status,
                                      calls |-> r.calls, tracks |-> r.tracks])
           /\ IF r.status = "ok"
              THEN part_i' = part_i + 1 /\ UNCHANGED rt_pc
              ELSE rt_pc' = r.status /\ UNCHANGED part_i
    /\ UNCHANGED <<routeFrame, color, node_highlighted, tptr, rr_nodes_to_draw, partial,
                   handoffs>>

\* draw_partial_route returns into the loop (lines 1667-1675): the vector is
\* cleared and tptr steps over the SINK; at the end of the traceback the loop is
\* left and line 1679 calls draw_partial_route once more, else the node the next
\* branch starts at is pushed.
draw_partial_route_return ==
    /\ rt_pc = "partial"
    /\ part_i >= Len(partial)
    /\ IF tptr + 1 > Len(trace_head[0])
       THEN /\ tptr' = 0
            /\ rr_nodes_to_draw' = <<>>
            /\ call_draw_partial_route(<<>>, "last_partial")
       ELSE /\ tptr' = tptr + 1
            /\ rr_nodes_to_draw' = <<trace_head[0][tptr + 1]>>
            /\ rt_pc' = "loop"
            /\ UNCHANGED <<partial, part_i, chanx_track, chany_track, handoffs>>
    /\ UNCHANGED <<routeFrame, color, node_highlighted, drawn>>

\* The call of line 1679 returns and the net is done.
drawroute_end ==
    /\ rt_pc = "last_partial"
    /\ part_i >= Len(partial)
    /\ rt_pc' = "done"
    /\ UNCHANGED <<routeFrame, color, node_highlighted, tptr, rr_nodes_to_draw, partial,
                   part_i, chanx_track, chany_track, handoffs, drawn>>

NextRoute ==
    \/ drawroute_begin
    \/ drawroute_step
    \/ draw_partial_route_step
    \/ draw_partial_route_return
    \/ drawroute_end

SpecRoute == InitRoute /\ [][NextRoute]_vars

(***************************************************************************)
(* The route claims, checked under SpecRoute.                              *)
(***************************************************************************)
the_trace == trace_head[0]
sink_count == Cardinality({i \in 1 .. Len(the_trace) : rr_node[the_trace[i]].type = "SINK"})

RECURSIVE concat(_, _)
concat(seqs, i) == IF i > Len(seqs) THEN <<>> ELSE seqs[i] \o concat(seqs, i + 1)

\* C2: when drawroute is done with a routed net whose traceback has k SINKs it has
\* handed draw_partial_route exactly k sequences, each ends in a SINK, and together
\* they are the traceback cut after every SINK (no SINK occurrence is in two of them).
C2_FlatteningPartition ==
    (rt_pc = "done" /\ the_trace \in router_traces) =>
        /\ Len(handoffs) = sink_count
        /\ \A j \in 1 .. Len(handoffs) :
               /\ Len(handoffs[j]) > 0
               /\ rr_node[handoffs[j][Len(handoffs[j])]].type = "SINK"
        /\ concat(handoffs, 1) = the_trace

\* C5: in the global view, any two distinct CHANX nodes with the same (xlow, ylow)
\* that one call of draw_partial_route assigns a track get different tracks, and so
\* do any two such CHANY nodes.
C5_TrackAllocationUniqueness ==
    draw_route_type = "GLOBAL" =>
        \A a \in 1 .. Len(drawn), b \in 1 .. Len(drawn) :
            (/\ drawn[a].call = drawn[b].call
             /\ drawn[a].inode # drawn[b].inode
             /\ rr_node[drawn[a].inode].type \in {"CHANX", "CHANY"}
             /\ rr_node[drawn[a].inode].type = rr_node[drawn[b].inode].type
             /\ rr_node[drawn[a].inode].xlow = rr_node[drawn[b].inode].xlow
             /\ rr_node[drawn[a].inode].ylow = rr_node[drawn[b].inode].ylow)
            => drawn[a].tracks[1] # drawn[b].tracks[1]

\* C5 witness: one call in the global view has given the two CHANX wires of
\* location (1,1) the tracks 0 and 1, and the two CHANY wires as well.
C5_Witness ==
    /\ draw_route_type = "GLOBAL"
    /\ rt_pc = "done"
    /\ \E a, b, c, d \in 1 .. Len(drawn) :
          /\ drawn[a].call = drawn[d].call /\ drawn[b].call = drawn[d].call
          /\ drawn[c].call = drawn[d].call
          /\ drawn[a].inode = 2 /\ drawn[b].inode = 3
          /\ drawn[c].inode = 4 /\ drawn[d].inode = 5
          /\ {drawn[a].tracks[1], drawn[b].tracks[1]} = {0, 1}
          /\ {drawn[c].tracks[1], drawn[d].tracks[1]} = {0, 1}

\* The RR graph has an edge from the SOURCE to the SINK of the two-node traceback.
source_drives_sink == \E i \in 1 .. Len(rr_node[0].edges) : rr_node[0].edges[i] = 7

\* C6 (as stated): for the traceback SOURCE, SINK, in a graph where the SOURCE has
\* an edge to the SINK, drawroute hands over exactly one sequence, of length 2, the
\* loop of draw_partial_route runs once, for the pair (SOURCE, SINK), and completes
\* normally, drawing only the pin-to-pin symbol.
C6_TwoNodeTraceDrawsPinToPin ==
    (/\ the_trace = two_node_trace
     /\ source_drives_sink
     /\ rt_pc \in {"done", "assert_failed", "vpr_throw"}) =>
        /\ rt_pc = "done"
        /\ handoffs = <<two_node_trace>>
        /\ Len(drawn) = 1
        /\ drawn[1].prev_node = 0 /\ drawn[1].inode = 7
        /\ drawn[1].calls = <<"draw_pin_to_pin">>

\* C6 (amended): for the traceback SOURCE, SINK drawroute hands over the sequence
\* SOURCE, SINK and then the empty sequence; the loop of draw_partial_route runs
\* once, for the pair (SOURCE, SINK); if the SOURCE has an edge to the SINK it
\* completes normally and draws nothing, and if not it ends in find_switch's
\* failed assertion.
C6_TwoNodeTraceDrawsNothing ==
    the_trace = two_node_trace =>
        /\ rt_pc # "vpr_throw"
        /\ Len(drawn) <= 1
        /\ \A j \in 1 .. Len(drawn) :
               /\ drawn[j].prev_node = 0 /\ drawn[j].inode = 7
               /\ drawn[j].calls = <<>>
               /\ drawn[j].status = IF source_drives_sink THEN "ok" ELSE "assert_failed"
        /\ rt_pc = "assert_failed" =>
               ~source_drives_sink /\ handoffs = <<two_node_trace>> /\ Len(drawn) = 1
        /\ rt_pc = "done" =>
               source_drives_sink /\ handoffs = <<two_node_trace, <<>>>> /\ Len(drawn) = 1
        /\ (rt_pc = "last_partial" /\ source_drives_sink) => Len(drawn) = 1

\* C6 witness: the traceback SOURCE, SINK has been drawn to the end: one pair was
\* classified and nothing was drawn for it.
C6_Witness ==
    /\ the_trace = two_node_trace
    /\ rt_pc = "done"
    /\ Len(drawn) = 1 /\ drawn[1].calls = <<>> /\ drawn[1].status = "ok"

(***************************************************************************)
(* SpecPath: trace_routed_connection_rr_nodes looks a sink up in the route *)
(* tree of a net.                                                          *)
(*                                                                         *)
(* A route tree has the nodes 1 .. size, node 1 the root (the net's        *)
(* SOURCE); parent[i] < i is the parent of node i, child_list[i] the       *)
(* linked list of i's children, in either order, and inode[i] the RR node  *)
(* of tree node i.  A route tree holds an RR node at most once; one RR     *)
(* node of the range drawn from is in no tree node.                        *)
(***************************************************************************)
MaxTreeNodes == 4

\* No highlight state is involved: the highlight variables at rest.
HighlightIdle ==
    /\ rr_node = <<>>
    /\ trace_head = <<>>
    /\ color = <<>>
    /\ node_highlighted = <<>>
    /\ net_color = <<>>
    /\ show_nets = DRAW_NO_NETS
    /\ draw_rr_toggle = DRAW_NO_RR
    /\ pc = "idle"
    /\ hit_node = OPEN
    /\ toggled = NoToggle

RECURSIVE children_of(_, _, _)
children_of(parent, node, i) ==
    IF i > Len(parent) THEN <<>>
    ELSE IF parent[i] = node THEN <<i>> \o children_of(parent, node, i + 1)
    ELSE children_of(parent, node, i + 1)

RECURSIVE reverse(_)
reverse(q) == IF q = <<>> THEN <<>> ELSE Append(reverse(Tail(q)), Head(q))

tree_parents(size) ==
    {p \in [1 .. size -> 0 .. size - 1] :
        p[1] = 0 /\ \A i \in 2 .. size : p[i] >= 1 /\ p[i] < i}

route_tree(size, parent, shift, newest_first) ==
    [size |-> size,
     parent |-> parent,
     inode |-> [i \in 1 .. size |-> (i + shift) % (size + 1)],
     child_list |-> [i \in 1 .. size |->
                       IF newest_first THEN reverse(children_of(parent, i, 1))
                       ELSE children_of(parent, i, 1)]]

route_trees ==
    UNION {{route_tree(size, parent, shift, newest_first) :
                parent \in tree_parents(size), shift \in 0 .. size,
                newest_first \in BOOLEAN} : size \in 1 .. MaxTreeNodes}

(***************************************************************************)
(* trace_routed_connection_rr_nodes_recurr (lines 2946-2967): the result   *)
(* and the vector after the call for tree node rt_node; child_loop is its  *)
(* for loop from the k-th child on.                                        *)
(***************************************************************************)
RECURSIVE trace_routed_connection_rr_nodes_recurr(_, _, _, _)
RECURSIVE child_loop(_, _, _, _, _)

\* The for loop giving up after the first child.
child_loop_first_only(tree, rt_node, k, sink, path) ==
    IF k > Len(tree.child_list[rt_node]) THEN [found |-> FALSE, path |-> path]
    ELSE LET r == trace_routed_connection_rr_nodes_recurr(
                      tree, tree.child_list[rt_node][k], sink, path)
         IN  IF r.found
             THEN [found |-> TRUE, path |-> Append(r.path, tree.inode[rt_node])]
             ELSE [found |-> FALSE, path |-> r.path]

child_loop(tree, rt_node, k, sink, path) ==
    IF k > Len(tree.child_list[rt_node]) THEN [found |-> FALSE, path |-> path]
    ELSE LET r == trace_routed_connection_rr_nodes_recurr(
                      tree, tree.child_list[rt_node][k], sink, path)
         IN  IF r.found
             THEN [found |-> TRUE, path |-> Append(r.path, tree.inode[rt_node])]
             ELSE child_loop(tree, rt_node, k + 1, sink, r.path)

trace_routed_connection_rr_nodes_recurr(tree, rt_node, sink, path) ==
    IF tree.inode[rt_node] = sink
    THEN [found |-> TRUE, path |-> Append(path, sink)]
    ELSE child_loop(tree, rt_node, 1, sink, path)

InitPath ==
    /\ HighlightIdle
    /\ RouteIdle
    /\ rt_root \in route_trees
    /\ sink_rr_node \in 0 .. MaxTreeNodes
    /\ rr_nodes_on_path = <<>>
    /\ on_path_to_sink = FALSE
    /\ path_pc = "trace"
    /\ rt_allocated = {}
    /\ rt_structs = FALSE
    /\ rt_queries = 0
    /\ HitIdle
    /\ ResetIdle
    /\ RoutingOnScreen

\* trace_routed_connection_rr_nodes, lines 2916-2932: the search from the root.
trace_collect ==
    /\ path_pc = "trace"
    /\ LET r == trace_routed_connection_rr_nodes_recurr(rt_root, 1, sink_rr_node,
                                                        rr_nodes_on_path)
       IN  /\ rr_nodes_on_path' = r.path
           /\ on_path_to_sink' = r.found
    /\ path_pc' = "collected"
    /\ UNCHANGED <<rr_node, hlVars, routeVars, hitVars, resetVars, screenVars, rt_root, sink_rr_node,
                   rt_allocated, rt_structs, rt_queries>>

\* lines 2934-2940: the vector is reversed and returned.
trace_reverse ==
    /\ path_pc = "collected"
    /\ rr_nodes_on_path' = reverse(rr_nodes_on_path)
    /\ path_pc' = "returned"
    /\ UNCHANGED <<rr_node, hlVars, routeVars, hitVars, resetVars, screenVars, rt_root, sink_rr_node,
                   on_path_to_sink, rt_allocated, rt_structs, rt_queries>>

NextPath ==
    \/ trace_collect
    \/ trace_reverse

SpecPath == InitPath /\ [][NextPath]_vars

\* The RR nodes in the tree, and the pairs that are a parent->child edge of it.
tree_inodes == {rt_root.inode[i] : i \in 1 .. rt_root.size}
tree_edge(a, b) ==
    \E u, v \in 1 .. rt_root.size :
        rt_root.inode[u] = a /\ rt_root.inode[v] = b /\ rt_root.parent[v] = u

\* C3: if the sink is in the route tree the search returns true and the vector,
\* reversed, starts at the root's RR node, ends at the sink, and every two
\* neighbours in it are a parent->child edge of the tree; if the sink is not in the
\* tree the search returns false and the vector stays empty.
C3_PathFindingCorrect ==
    /\ path_pc \in {"collected", "returned"} =>
          /\ on_path_to_sink <=> sink_rr_node \in tree_inodes
          /\ ~on_path_to_sink => rr_nodes_on_path = <<>>
    /\ (path_pc = "returned" /\ sink_rr_node \in tree_inodes) =>
          /\ Len(rr_nodes_on_path) >= 1
          /\ rr_nodes_on_path[1] = rt_root.inode[1]
          /\ rr_nodes_on_path[Len(rr_nodes_on_path)] = sink_rr_node
          /\ \A k \in 1 .. Len(rr_nodes_on_path) - 1 :
                 tree_edge(rr_nodes_on_path[k], rr_nodes_on_path[k + 1])

\* C3 witness: a path of three nodes has been returned from a tree that has a
\* node off the path, reached after the search gave up on an earlier child.
C3_Witness ==
    /\ path_pc = "returned"
    /\ Len(rr_nodes_on_path) = 3
    /\ \E c \in 1 .. rt_root.size :
          /\ rt_root.parent[c] = 1
          /\ rt_root.child_list[1][1] = c
          /\ rt_root.inode[c] # rr_nodes_on_path[2]

(***************************************************************************)
(* Locating a click: init_draw_coords, draw_get_rr_pin_coords,             *)
(* draw_get_rr_chan_bbox and draw_check_rr_node_hit.                        *)
(*                                                                         *)
(* World coordinates are floats in the code; here they are integers, Scale *)
(* of them to 1.0 of the world.  Scale and the tile widths are chosen so   *)
(* that every quotient the code forms (tile_width / (4 * num_pins) and     *)
(* tile_width / (num_pins + capacity), for up to four pins and any         *)
(* capacity up to num_pins) is a whole number of units, so \div below is   *)
(* exact division.                                                         *)
(***************************************************************************)
Scale == 840

\* The grid is nx by ny blocks (tiles 1 .. nx by 1 .. ny), all of one block type
\* with at most MaxNumPins pins; a channel holds at most MaxChanWidth tracks.
nx == 2
ny == 2
MaxNumPins == 3
MaxChanWidth == 2

\* e_side, in the order the hit test's iside = 0 .. 3 runs through it.
e_side == <<"TOP", "RIGHT", "BOTTOM", "LEFT">>

\* width_val of init_draw_coords: tiles 2.0 or 6.0 wide.
tile_widths == {2 * Scale, 6 * Scale}

\* type->pinloc[width_offset][height_offset][iside][ipin] of a block one tile
\* large: pin ipin sits on side (ipin + rot) % 4, or every pin on all four sides.
pinloc_table(num_pins, rot, all_sides) ==
    [wo \in {0} |-> [ho \in {0} |-> [iside \in 0 .. 3 |-> [ipin \in 0 .. num_pins - 1 |->
        all_sides \/ iside = (ipin + rot) % 4]]]]

\* The block types: num_pins is a multiple of capacity (each of the capacity
\* sub-tiles has the same pins).
block_types ==
    {[num_pins |-> P, capacity |-> C, pinloc |-> pinloc_table(P, rot, all_sides)] :
        <<P, C, rot, all_sides>> \in
            {q \in (1 .. MaxNumPins) \X (1 .. MaxNumPins) \X {0, 1} \X BOOLEAN :
                /\ q[1] % q[2] = 0
                /\ q[4] => q[3] = 0}}

\* grid[i][j]: every tile is the root tile of a block of block_type.
grid(btype, i, j) == [type |-> btype, width_offset |-> 0, height_offset |-> 0]

\* The RR nodes of the grid, as the RR graph builder numbers their places: pin
\* ipin of the block at (i, j) is an IPIN or OPIN with ptc_num = ipin whose
\* xlow, ylow is the block's root tile; track t of the x channel above row j is
\* a CHANX with ptc_num = t spanning columns 1 .. nx, and likewise for CHANY;
\* every block has one SOURCE and one SINK.
hit_pin_nodes(btype) ==
    {[type |-> IF ipin % 2 = 0 THEN "IPIN" ELSE "OPIN", xlow |-> i, ylow |-> j,
      xhigh |-> i, yhigh |-> j, ptc_num |-> ipin, edges |-> <<>>] :
        <<i, j, ipin>> \in (1 .. nx) \X (1 .. ny) \X (0 .. btype.num_pins - 1)}
hit_class_nodes ==
    {[type |-> t, xlow |-> i, ylow |-> j, xhigh |-> i, yhigh |-> j, ptc_num |-> 0,
      edges |-> <<>>] : <<t, i, j>> \in {"SOURCE", "SINK"} \X (1 .. nx) \X (1 .. ny)}
hit_chan_nodes(W) ==
    {[type |-> "CHANX", xlow |-> 1, ylow |-> j, xhigh |-> nx, yhigh |-> j, ptc_num |-> t,
      edges |-> <<>>] : <<j, t>> \in (0 .. ny) \X (0 .. W - 1)}
    \cup
    {[type |-> "CHANY", xlow |-> i, ylow |-> 1, xhigh |-> i, yhigh |-> ny, ptc_num |-> t,
      edges |-> <<>>] : <<i, t>> \in (0 .. nx) \X (0 .. W - 1)}

\* The nodes in one index order: rr_node[0 .. num_rr_nodes - 1].
RECURSIVE node_order(_)
node_order(S) ==
    IF S = {} THEN <<>>
    ELSE LET n == CHOOSE m \in S : TRUE IN <<n>> \o node_order(S \ {n})
hit_rr_node(btype, W, backwards) ==
    LET all == node_order(hit_pin_nodes(btype) \cup hit_class_nodes \cup hit_chan_nodes(W))
        seq == IF backwards THEN reverse(all) ELSE all
    IN  [n \in 0 .. Len(seq) - 1 |-> seq[n + 1]]

min(a, b) == IF a <= b THEN a ELSE b

\* init_draw_coords' running sum j after i channels (lines 563-575).
RECURSIVE chan_space(_, _)
chan_space(list, i) ==
    IF i = 0 THEN 0 ELSE chan_space(list, i - 1) + (list[i - 1] + 1) * Scale

\* init_draw_coords' loop over type_descriptors (lines 555-561).
RECURSIVE pin_size_loop(_, _, _, _)
pin_size_loop(type_descriptors, i, tile_width, pin_size) ==
    IF i > Len(type_descriptors) THEN pin_size
    ELSE pin_size_loop(type_descriptors, i + 1, tile_width,
             IF type_descriptors[i].num_pins > 0
             THEN min(pin_size, tile_width \div (4 * type_descriptors[i].num_pins))
             ELSE pin_size)

\* The empty block type, which has no pins.
EMPTY_TYPE == [num_pins |-> 0, capacity |-> 0, pinloc |-> <<>>]

\* init_draw_coords (lines 554-575): what it leaves in draw_coords.
init_draw_coords_coords(width_val, btype, cw) ==
    [tile_width |-> width_val,
     pin_size |-> pin_size_loop(<<EMPTY_TYPE, btype>>, 1, width_val, (3 * Scale) \div 10),
     tile_x |-> [i \in 0 .. nx + 1 |-> i * width_val + chan_space(cw.y_list, i)],
     tile_y |-> [i \in 0 .. ny + 1 |-> i * width_val + chan_space(cw.x_list, i)]]

\* draw_get_rr_pin_coords with the step taken over the pins alone, without the
\* padding slot of each sub-tile.
draw_get_rr_pin_coords_no_padding(node, iside, width_offset, height_offset) ==
    LET i == node.xlow + width_offset
        j == node.ylow + height_offset
        xc == draw_coords.tile_x[i]
        yc == draw_coords.tile_y[j]
        ipin == node.ptc_num
        type == grid(block_type, i, j).type
        pins_per_sub_tile == type.num_pins \div type.capacity
        k == ipin \div pins_per_sub_tile
        step == draw_coords.tile_width \div type.num_pins
        offset == (ipin + k + 1) * step
    IN  CASE e_side[iside + 1] = "LEFT"   -> <<xc, yc + offset>>
          [] e_side[iside + 1] = "RIGHT"  -> <<xc + draw_coords.tile_width, yc + offset>>
          [] e_side[iside + 1] = "BOTTOM" -> <<xc + offset, yc>>
          [] e_side[iside + 1] = "TOP"    -> <<xc + offset, yc + draw_coords.tile_width>>

\* draw_get_rr_pin_coords (lines 1553-1608): <<xcen, ycen>>.
draw_get_rr_pin_coords(node, iside, width_offset, height_offset) ==
    LET i == node.xlow + width_offset
        j == node.ylow + height_offset
        xc == draw_coords.tile_x[i]
        yc == draw_coords.tile_y[j]
        ipin == node.ptc_num
        type == grid(block_type, i, j).type
        pins_per_sub_tile == type.num_pins \div type.capacity
        k == ipin \div pins_per_sub_tile
        step == draw_coords.tile_width \div (type.num_pins + type.capacity)
        offset == (ipin + k + 1) * step
    IN  CASE e_side[iside + 1] = "LEFT"   -> <<xc, yc + offset>>
          [] e_side[iside + 1] = "RIGHT"  -> <<xc + draw_coords.tile_width, yc + offset>>
          [] e_side[iside + 1] = "BOTTOM" -> <<xc + offset, yc>>
          [] e_side[iside + 1] = "TOP"    -> <<xc + offset, yc + draw_coords.tile_width>>

\* A default-constructed t_bound_box: all four coordinates are zero.
default_bound_box == [left |-> 0, right |-> 0, bottom |-> 0, top |-> 0]

\* draw_get_rr_chan_bbox taking both ends of the box from the wire's low end.
draw_get_rr_chan_bbox_low_end(inode) ==
    LET n == rr_node[inode]
        along == draw_coords.tile_width + (1 + n.ptc_num) * Scale
    IN  IF n.type = "CHANX"
        THEN [left   |-> draw_coords.tile_x[n.xlow],
              right  |-> draw_coords.tile_x[n.xlow] + draw_coords.tile_width,
              bottom |-> draw_coords.tile_y[n.ylow] + along,
              top    |-> draw_coords.tile_y[n.ylow] + along]
        ELSE IF n.type = "CHANY"
        THEN [left   |-> draw_coords.tile_x[n.xlow] + along,
              right  |-> draw_coords.tile_x[n.xlow] + along,
              bottom |-> draw_coords.tile_y[n.ylow],
              top    |-> draw_coords.tile_y[n.ylow] + draw_coords.tile_width]
        ELSE default_bound_box

\* draw_get_rr_chan_bbox (lines 1442-1478).
draw_get_rr_chan_bbox(inode) ==
    LET n == rr_node[inode]
        along == draw_coords.tile_width + (1 + n.ptc_num) * Scale
    IN  IF n.type = "CHANX"
        THEN [left   |-> draw_coords.tile_x[n.xlow],
              right  |-> draw_coords.tile_x[n.xhigh] + draw_coords.tile_width,
              bottom |-> draw_coords.tile_y[n.ylow] + along,
              top    |-> draw_coords.tile_y[n.ylow] + along]
        ELSE IF n.type = "CHANY"
        THEN [left   |-> draw_coords.tile_x[n.xlow] + along,
              right  |-> draw_coords.tile_x[n.xlow] + along,
              bottom |-> draw_coords.tile_y[n.ylow],
              top    |-> draw_coords.tile_y[n.yhigh] + draw_coords.tile_width]
        ELSE default_bound_box

\* The sides of the block at the pin's xlow, ylow on which the pin-placement
\* table has the pin (lines 1962-1965 and 1972, and the same in draw_rr_pin,
\* lines 1508-1528).
pin_on_side(inode, iside) ==
    LET i == rr_node[inode].xlow
        j == rr_node[inode].ylow
        g == grid(block_type, i, j)
    IN  g.type.pinloc[g.width_offset][g.height_offset][iside][rr_node[inode].ptc_num]

\* The test with the borders left out.
in_open_box(click_x, click_y, left, right, bottom, top) ==
    /\ click_x > left
    /\ click_x < right
    /\ click_y > bottom
    /\ click_y < top

\* The closed test of lines 1977-1980 and 1994-1997.
in_closed_box(click_x, click_y, left, right, bottom, top) ==
    /\ click_x >= left
    /\ click_x <= right
    /\ click_y >= bottom
    /\ click_y <= top

RECURSIVE pin_side_loop(_, _, _, _)

\* The side loop testing side 0 only.
pin_side_loop_first_side(inode, iside, click_x, click_y) ==
    /\ iside = 0
    /\ pin_on_side(inode, iside)
    /\ LET c == draw_get_rr_pin_coords(rr_node[inode], iside, 0, 0)
       IN  in_closed_box(click_x, click_y,
                         c[1] - draw_coords.pin_size, c[1] + draw_coords.pin_size,
                         c[2] - draw_coords.pin_size, c[2] + draw_coords.pin_size)

\* The loop over iside of lines 1970-1985, from iside on: TRUE if the click is in
\* the pin's square on one of the sides that has the pin.
pin_side_loop(inode, iside, click_x, click_y) ==
    IF iside >= 4 THEN FALSE
    ELSE LET i == rr_node[inode].xlow
             j == rr_node[inode].ylow
             g == grid(block_type, i, j)
             c == draw_get_rr_pin_coords(rr_node[inode], iside, g.width_offset,
                                         g.height_offset)
         IN  IF /\ pin_on_side(inode, iside)
                /\ in_closed_box(click_x, click_y,
                                 c[1] - draw_coords.pin_size, c[1] + draw_coords.pin_size,
                                 c[2] - draw_coords.pin_size, c[2] + draw_coords.pin_size)
             THEN TRUE
             ELSE pin_side_loop(inode, iside + 1, click_x, click_y)

\* const float tolerance = 0.3 (line 1993).
tolerance == (3 * Scale) \div 10

\* The loop over inode of lines 1952-2004, from inode on.
RECURSIVE hit_loop(_, _, _)
hit_loop(inode, click_x, click_y) ==
    IF inode >= num_rr_nodes THEN OPEN
    ELSE IF rr_node[inode].type \in {"IPIN", "OPIN"}
    THEN IF pin_side_loop(inode, 0, click_x, click_y)
         THEN inode
         ELSE hit_loop(inode + 1, click_x, click_y)
    ELSE IF rr_node[inode].type \in {"CHANX", "CHANY"}
    THEN LET bound_box == draw_get_rr_chan_bbox(inode)
         IN  IF in_closed_box(click_x, click_y,
                              bound_box.left - tolerance, bound_box.right + tolerance,
                              bound_box.bottom - tolerance, bound_box.top + tolerance)
             THEN inode
             ELSE hit_loop(inode + 1, click_x, click_y)
    ELSE hit_loop(inode + 1, click_x, click_y)

\* draw_check_rr_node_hit (lines 1945-2006).
draw_check_rr_node_hit(click_x, click_y) == hit_loop(0, click_x, click_y)

\* draw_rr_pin (lines 1502-1542): the centres of the squares of half-size pin_size
\* it fills for the pin, one for every side the table has the pin on.
draw_rr_pin(inode) ==
    LET i == rr_node[inode].xlow
        j == rr_node[inode].ylow
        g == grid(block_type, i, j)
    IN  {[iside |-> iside,
          cen |-> draw_get_rr_pin_coords(rr_node[inode], iside, g.width_offset,
                                         g.height_offset)] :
            iside \in {s \in 0 .. 3 : pin_on_side(inode, s)}}

\* The graph, the block type and the channel widths are loaded; init_draw_coords
\* has not run yet.
InitHit ==
    /\ \E W \in {1, MaxChanWidth} :
          /\ chan_width = [x_list |-> [j \in 0 .. ny |-> W], y_list |-> [i \in 0 .. nx |-> W]]
          /\ block_type \in block_types
          /\ rr_node \in {hit_rr_node(block_type, W, backwards) : backwards \in BOOLEAN}
    /\ trace_head = <<>>
    /\ color = <<>>
    /\ node_highlighted = <<>>
    /\ net_color = <<>>
    /\ show_nets = DRAW_NO_NETS
    /\ draw_rr_toggle = DRAW_RR_TOGGLE_MAX - 1
    /\ pc = "idle"
    /\ hit_node = OPEN
    /\ toggled = NoToggle
    /\ RouteIdle
    /\ PathIdle
    /\ draw_coords = <<>>
    /\ click = <<>>
    /\ hit_result = OPEN
    /\ hit_pc = "init_draw_coords"
    /\ ResetIdle
    /\ RoutingOnScreen

hitFrame == <<rr_node, hlVars, routeVars, pathVars, resetVars, screenVars, block_type, chan_width>>

\* init_draw_coords without the reallocation and reset of draw_rr_node.
init_draw_coords_keeps_nodes ==
    /\ hit_pc = "init_draw_coords"
    /\ IF ~show_graphics
       THEN /\ UNCHANGED <<color, node_highlighted, draw_coords>>
            /\ hit_pc' = "no_graphics"
       ELSE /\ UNCHANGED <<color, node_highlighted>>
            /\ \E width_val \in tile_widths :
                  draw_coords' = init_draw_coords_coords(width_val, block_type, chan_width)
            /\ hit_pc' = "drawn"
    /\ reset_pc' = "reset"
    /\ UNCHANGED <<rr_node, trace_head, net_color, show_nets, draw_rr_toggle, pc, hit_node,
                   toggled, routeVars, pathVars, block_type, chan_width, click, hit_result,
                   block_color, sub_block_selected, show_graphics, highlighted_before,
                   clicked, g_clbs_nlist, screenVars>>

\* init_draw_coords(width_val) (lines 529-585).  With graphics disabled it
\* returns at once; otherwise it reallocates draw_rr_node to num_rr_nodes entries
\* and resets every entry, unless num_rr_nodes is 0, and loads the coordinates.
\* It leaves net_color and block_color alone.
init_draw_coords ==
    /\ hit_pc = "init_draw_coords"
    /\ IF ~show_graphics
       THEN /\ UNCHANGED <<color, node_highlighted, draw_coords>>
            /\ hit_pc' = "no_graphics"
       ELSE /\ IF num_rr_nodes # 0
               THEN /\ color' = [i \in 0 .. num_rr_nodes - 1 |-> DEFAULT_RR_NODE_COLOR]
                    /\ node_highlighted' = [i \in 0 .. num_rr_nodes - 1 |-> FALSE]
               ELSE UNCHANGED <<color, node_highlighted>>
            /\ \E width_val \in tile_widths :
                  draw_coords' = init_draw_coords_coords(width_val, block_type, chan_width)
            /\ hit_pc' = "drawn"
    /\ reset_pc' = "reset"
    /\ UNCHANGED <<rr_node, trace_head, net_color, show_nets, draw_rr_toggle, pc, hit_node,
                   toggled, routeVars, pathVars, block_type, chan_width, click, hit_result,
                   block_color, sub_block_selected, show_graphics, highlighted_before,
                   clicked, g_clbs_nlist, screenVars>>

\* The pin nodes of the graph.
PinNode == {n \in Node : rr_node[n].type \in {"IPIN", "OPIN"}}

\* The clicks tried.  Every block is of the same type, so the clicks around pins
\* are those around the pins of the first and of the last tile.
clicked_squares ==
    UNION {draw_rr_pin(n) : n \in {p \in PinNode :
              <<rr_node[p].xlow, rr_node[p].ylow>> \in {<<1, 1>>, <<nx, ny>>}}}

\* Inside a drawn pin square: its centre and the points one unit inside its edges
\* and its corners.
click_offsets ==
    LET s == draw_coords.pin_size
    IN  {-s + 1, 0, s - 1}
inside_points ==
    UNION {{<<sq.cen[1] + dx, sq.cen[2] + dy>> : <<dx, dy>> \in click_offsets \X click_offsets} :
              sq \in clicked_squares}

\* On and one unit past the border of a drawn pin square: an edge, a corner, and
\* the points one unit out from an edge on either axis.
border_points ==
    LET s == draw_coords.pin_size
    IN  UNION {{<<sq.cen[1] + d[1], sq.cen[2] + d[2]>> :
                   d \in {<<s, 0>>, <<-s, s>>, <<s + 1, 0>>, <<0, -s - 1>>}} :
                  sq \in clicked_squares}

\* Around a wire: the low end of the wire itself, the corner of its box widened by
\* the tolerance, and the points one unit past that corner on either axis.
wire_points ==
    UNION {LET b == draw_get_rr_chan_bbox(n)
               t == (3 * Scale) \div 10
           IN  {<<b.left, b.bottom>>, <<b.left - t, b.bottom - t>>,
                <<b.left - t - 1, b.bottom>>, <<b.right, b.top + t + 1>>} :
              n \in {w \in Node : rr_node[w].type \in {"CHANX", "CHANY"}}}

\* Where the first tracks of a CHANX and of a CHANY channel meet, and the middle
\* of every block.
crossing_points ==
    {<<draw_get_rr_chan_bbox(v).left, draw_get_rr_chan_bbox(h).bottom>> :
        <<h, v>> \in {q \in Node \X Node : /\ rr_node[q[1]].type = "CHANX"
                                            /\ rr_node[q[2]].type = "CHANY"
                                            /\ rr_node[q[1]].ptc_num = 0
                                            /\ rr_node[q[2]].ptc_num = 0}}
tile_points ==
    {<<draw_coords.tile_x[i] + draw_coords.tile_width \div 2,
       draw_coords.tile_y[j] + draw_coords.tile_width \div 2>> :
        <<i, j>> \in (1 .. nx) \X (1 .. ny)}

click_points ==
    inside_points \cup border_points \cup wire_points \cup crossing_points \cup tile_points

\* highlight_rr_nodes(x, y) up to the return of draw_check_rr_node_hit (line 2070).
mouse_click ==
    /\ hit_pc = "drawn"
    /\ \E point \in click_points :
          /\ click' = point
          /\ hit_result' = draw_check_rr_node_hit(point[1], point[2])
    /\ hit_pc' = "clicked"
    /\ UNCHANGED <<hitFrame, draw_coords>>

NextHit ==
    \/ init_draw_coords
    \/ mouse_click

SpecHit == InitHit /\ [][NextHit]_vars

\* The click is strictly inside the square of half-size pin_size centred on cen.
strictly_inside(point, cen) ==
    /\ point[1] > cen[1] - draw_coords.pin_size
    /\ point[1] < cen[1] + draw_coords.pin_size
    /\ point[2] > cen[2] - draw_coords.pin_size
    /\ point[2] < cen[2] + draw_coords.pin_size

\* C4: for every IPIN or OPIN node p, every side the pin-placement table has p
\* on, and every click strictly inside the square drawn for p on that side, the
\* hit test returns p's node id, whatever the index order of the nodes.
C4_HitTestSoundness ==
    hit_pc = "clicked" =>
        \A p \in PinNode : \A sq \in draw_rr_pin(p) :
            strictly_inside(click, sq.cen) => hit_result = p

\* C4 witness: a click strictly inside the square of a pin that is not the first
\* pin in index order, in a graph where a channel node comes before it, returned
\* that pin.
C4_Witness ==
    /\ hit_pc = "clicked"
    /\ \E p \in PinNode : \E sq \in draw_rr_pin(p) :
          /\ strictly_inside(click, sq.cen)
          /\ click # sq.cen
          /\ hit_result = p
          /\ \E q \in PinNode : q < p
          /\ \E w \in Node : w < p /\ rr_node[w].type \in {"CHANX", "CHANY"}
          /\ sq.iside # 0

\* The nodes the claim's description picks out for a click: a pin with the point
\* inside or on the border of one of its squares on a side that has the pin, or a
\* wire with the point inside or on the border of its box widened by 0.3.
claims_point(n, point) ==
    IF rr_node[n].type \in {"IPIN", "OPIN"}
    THEN \E sq \in draw_rr_pin(n) :
            /\ sq.cen[1] - draw_coords.pin_size <= point[1]
            /\ point[1] <= sq.cen[1] + draw_coords.pin_size
            /\ sq.cen[2] - draw_coords.pin_size <= point[2]
            /\ point[2] <= sq.cen[2] + draw_coords.pin_size
    ELSE IF rr_node[n].type \in {"CHANX", "CHANY"}
    THEN LET b == draw_get_rr_chan_bbox(n)
             t == (3 * Scale) \div 10
         IN  /\ b.left - t <= point[1] /\ point[1] <= b.right + t
             /\ b.bottom - t <= point[2] /\ point[2] <= b.top + t
    ELSE FALSE
claimants(point) == {n \in Node : claims_point(n, point)}

\* C16: draw_check_rr_node_hit returns the lowest-index node among the pins whose
\* square (borders included) on a side that has the pin holds the point and the
\* wires whose box widened by 0.3 holds it; it returns OPEN exactly when there is
\* no such node, and never a SOURCE or a SINK.
C16_HitTestResult ==
    hit_pc = "clicked" =>
        LET matching == claimants(click)
        IN  /\ matching # {} =>
                  /\ hit_result \in matching
                  /\ \A n \in matching : hit_result <= n
            /\ matching = {} <=> hit_result = OPEN
            /\ hit_result # OPEN => rr_node[hit_result].type \notin {"SOURCE", "SINK"}

\* C16 witness: a click where two wires cross, with a SOURCE or SINK earlier in
\* index order than both, returned the wire that comes first.
C16_Witness ==
    /\ hit_pc = "clicked"
    /\ Cardinality(claimants(click)) >= 2
    /\ hit_result \in claimants(click)
    /\ \E n \in claimants(click) :
          /\ n > hit_result
          /\ rr_node[n].type # rr_node[hit_result].type
    /\ \E k \in Node : k < hit_result /\ rr_node[k].type \in {"SOURCE", "SINK"}

\* C16 witness of the other outcome: a click one unit outside a pin's square
\* returned OPEN.
C16_WitnessOpen ==
    /\ hit_pc = "clicked"
    /\ hit_result = OPEN
    /\ \E p \in PinNode : \E sq \in draw_rr_pin(p) :
          click = <<sq.cen[1] + draw_coords.pin_size + 1, sq.cen[2]>>

(***************************************************************************)
(* deselect_all, the highlighting of blocks, and the reset of the          *)
(* highlight state when a new routing has rebuilt the RR graph.            *)
(*                                                                         *)
(* The netlist has NumBlocks blocks and NumNets nets; net inet is driven   *)
(* by block inet % NumBlocks and has one more pin, on the next block.  The *)
(* RR graph has up to MaxResetNodes nodes, pins and wires in turn, and no  *)
(* edges; the nets have no traceback.                                      *)
(***************************************************************************)
NumBlocks == 3
MaxResetNodes == 2

\* MAX_BLOCK_COLOURS, the number of colors kept for block types.
MAX_BLOCK_COLOURS == 5

\* block[i].type->index: one block type below the three reserved indices, then
\* the last and the first type past the colors kept for types, then the first
\* type with a color of its own.
block_type_index(i) ==
    <<2, 2 + MAX_BLOCK_COLOURS, 3 + MAX_BLOCK_COLOURS, 3>>[(i % 4) + 1]

\* draw_reset_blk_color (lines 2286-2297): the color it gives block i, LIGHTGREY
\* or the color that many places after BISQUE in color_types.
draw_reset_blk_color(i) ==
    IF block_type_index(i) < 3 THEN "LIGHTGREY"
    ELSE IF block_type_index(i) < 3 + MAX_BLOCK_COLOURS
    THEN "BISQUE+" \o ToString(MAX_BLOCK_COLOURS + block_type_index(i) - 3)
    ELSE "BISQUE+" \o ToString(2 * MAX_BLOCK_COLOURS - 1)

\* t_selected_sub_block_info::clear(), which deselect_all calls last (line 2281):
\* no sub-block is selected afterwards.
clear_selected_sub_block == FALSE

\* The loop of deselect_all over the blocks starting at block 1.
deselect_all_blocks_from_1(bc) ==
    [i \in DOMAIN bc |-> IF i >= 1 THEN draw_reset_blk_color(i) ELSE bc[i]]

\* deselect_all, lines 2268-2270: the block colors.
deselect_all_blocks(bc) == [i \in DOMAIN bc |-> draw_reset_blk_color(i)]

\* g_clbs_nlist.net[inet].pins: the blocks of the net's pins, the driver first.
net_pins(inet) == g_clbs_nlist[inet]

\* The netlists: net inet is driven by block inet % NumBlocks and has a sink on
\* the next block; it may have a second sink on the driving block itself (an
\* output of the block fed back to one of its inputs).
netlists ==
    {[inet \in 0 .. NumNets - 1 |->
         IF fb[inet]
         THEN <<inet % NumBlocks, (inet + 1) % NumBlocks, inet % NumBlocks>>
         ELSE <<inet % NumBlocks, (inet + 1) % NumBlocks>>] :
     fb \in [0 .. NumNets - 1 -> BOOLEAN]}

\* The blocks of the net's sinks, pins 1 and up.
net_sinks(inet) == {net_pins(inet)[ipin] : ipin \in 2 .. Len(net_pins(inet))}

\* block[bnum].nets with type->class_inf[type->pin_class[k]].type: the net on each
\* connected pin of block bnum and the pin's class, in pin order.  The pins go net
\* by net, the output that drives a net before the input the net feeds.
RECURSIVE block_nets(_, _, _)
block_nets(bnum, inet, nets) ==
    IF inet >= nets THEN <<>>
    ELSE (IF net_pins(inet)[1] = bnum THEN <<[net |-> inet, type |-> "DRIVER"]>> ELSE <<>>)
         \o (IF bnum \in net_sinks(inet) THEN <<[net |-> inet, type |-> "RECEIVER"]>>
             ELSE <<>>)
         \o block_nets(bnum, inet + 1, nets)

\* The graph after a routing run that built n RR nodes.
reset_rr_node(n) ==
    [i \in 0 .. n - 1 |-> [type |-> IF i % 2 = 0 THEN "OPIN" ELSE "CHANX", xlow |-> 1,
                           ylow |-> 1, xhigh |-> 1, yhigh |-> 1, ptc_num |-> i,
                           edges |-> <<>>]]

\* The pin loop of draw_highlight_blocks_color (lines 2206-2247), from pin k of
\* block bnum on: the net and block colors it leaves.
RECURSIVE highlight_pins(_, _, _, _)
highlight_pins(bnum, k, nc, bc) ==
    LET nets == block_nets(bnum, 0, Cardinality(DOMAIN nc))
    IN  IF k > Len(nets) THEN [net_color |-> nc, block_color |-> bc]
        ELSE LET netnum == nets[k].net
                 pins == net_pins(netnum)
                 fans == IF nets[k].type = "DRIVER"
                         THEN {pins[ipin] : ipin \in 2 .. Len(pins)}
                         ELSE {pins[1]}
                 net_hl == IF nets[k].type = "DRIVER" THEN DRIVES_IT_COLOR
                           ELSE "DRIVEN_BY_IT_COLOR"
             IN  IF bc[bnum] = "SELECTED_COLOR"
                 THEN highlight_pins(bnum, k + 1, [nc EXCEPT ![netnum] = "BLACK"],
                          [b \in DOMAIN bc |-> IF b \in fans THEN draw_reset_blk_color(b)
                                               ELSE bc[b]])
                 ELSE highlight_pins(bnum, k + 1, [nc EXCEPT ![netnum] = net_hl],
                          [b \in DOMAIN bc |-> IF b \in fans THEN net_hl ELSE bc[b]])

\* draw_highlight_blocks_color (lines 2199-2257).
draw_highlight_blocks_color(bnum, nc, bc) ==
    LET p == highlight_pins(bnum, 1, nc, bc)
    IN  [net_color |-> p.net_color,
         block_color |-> [p.block_color EXCEPT ![bnum] =
                              IF p.block_color[bnum] = "SELECTED_COLOR"
                              THEN draw_reset_blk_color(bnum)
                              ELSE "SELECTED_COLOR"]]

\* The state alloc_draw_structs leaves (lines 475-499): the arrays allocated for
\* the netlist and the RR graph of the first routing, and deselect_all called.
InitReset ==
    /\ rr_node \in {reset_rr_node(n) : n \in 0 .. MaxResetNodes}
    /\ trace_head = [inet \in 0 .. NumNets - 1 |-> <<>>]
    /\ color = [n \in Node |-> DEFAULT_RR_NODE_COLOR]
    /\ node_highlighted = [n \in Node |-> FALSE]
    /\ net_color = [inet \in Net |-> "BLACK"]
    /\ show_nets = DRAW_NO_NETS
    /\ draw_rr_toggle = DRAW_RR_TOGGLE_MAX - 1
    /\ pc = "idle"
    /\ hit_node = OPEN
    /\ toggled = NoToggle
    /\ RouteIdle
    /\ PathIdle
    /\ block_type = [num_pins |-> 1, capacity |-> 1, pinloc |-> pinloc_table(1, 0, FALSE)]
    /\ chan_width = [x_list |-> [j \in 0 .. ny |-> 1], y_list |-> [i \in 0 .. nx |-> 1]]
    /\ draw_coords = <<>>
    /\ click = <<>>
    /\ hit_result = OPEN
    /\ hit_pc = "init_draw_coords"
    /\ block_color = [i \in 0 .. NumBlocks - 1 |-> draw_reset_blk_color(i)]
    /\ sub_block_selected = FALSE
    /\ show_graphics \in BOOLEAN
    /\ highlighted_before = NoHistory
    /\ reset_pc = "routed"
    /\ clicked = NoClicks
    /\ g_clbs_nlist \in netlists
    /\ RoutingOnScreen

\* The array arr with the entries of the RR nodes overwritten: deselect_all's
\* loop runs to num_rr_nodes, which is less than the length of draw_rr_node when
\* init_draw_coords found num_rr_nodes = 0 and kept the array of the last graph.
over_array(arr, new) == [i \in DOMAIN arr |-> IF i \in DOMAIN new THEN new[i] ELSE arr[i]]

resetFrame == <<rr_node, trace_head, show_nets, draw_rr_toggle, pc, hit_node, toggled,
                routeVars, pathVars, hitVars, show_graphics, clicked, g_clbs_nlist,
                screenVars>>

\* highlight_blocks, lines 2097-2101: a click in the graphics area calls
\* deselect_all unless Ctrl is held.
highlight_blocks_begin ==
    /\ show_graphics
    /\ reset_pc \in {"idle", "reset"}
    /\ \E ctrl_pressed \in BOOLEAN :
          IF ctrl_pressed
          THEN /\ reset_pc' = "ctrl_click"
               /\ UNCHANGED <<color, node_highlighted, net_color, block_color,
                              sub_block_selected, highlighted_before>>
          ELSE /\ reset_pc' = "deselected"
               /\ highlighted_before' =
                     [nodes |-> \E n \in Node : color[n] = "MAGENTA" /\ node_highlighted[n],
                      nets |-> \E inet \in Net : net_color[inet] # "BLACK",
                      blocks |-> \E i \in DOMAIN block_color :
                                    block_color[i] = "SELECTED_COLOR",
                      sub_block |-> sub_block_selected]
               /\ color' = over_array(color, deselect_all_nodes.color)
               /\ node_highlighted' = over_array(node_highlighted, deselect_all_nodes.hl)
               /\ net_color' = deselect_all_nets
               /\ block_color' = deselect_all_blocks(block_color)
               /\ sub_block_selected' = clear_selected_sub_block
    /\ UNCHANGED resetFrame

\* highlight_blocks, lines 2106-2168, for a click inside block bnum:
\* highlight_sub_block selects a sub-block or clears the selection; with none
\* selected the block and its fan-in and fan-out are colored; then drawscreen.
highlight_blocks_clb(bnum) ==
    /\ reset_pc \in {"deselected", "ctrl_click"}
    /\ \E selected \in BOOLEAN :
          LET b == IF selected
                   THEN [net_color |-> net_color, block_color |-> block_color]
                   ELSE draw_highlight_blocks_color(bnum, net_color, block_color)
              redrawn == redraw_screen(color, node_highlighted, b.net_color, show_nets,
                                       draw_rr_toggle)
          IN  /\ sub_block_selected' = selected
              /\ net_color' = b.net_color
              /\ block_color' = b.block_color
              /\ color' = redrawn.color
              /\ node_highlighted' = redrawn.hl
    /\ reset_pc' = "idle"
    /\ highlighted_before' = NoHistory
    /\ UNCHANGED resetFrame

\* highlight_blocks, lines 2139-2144, for a click outside every block: the whole of
\* highlight_rr_nodes (lines 2014-2080) for the node the click hits, if any.
highlight_blocks_rr(hit) ==
    /\ reset_pc \in {"deselected", "ctrl_click"}
    /\ LET t == IF hit = OPEN THEN [color |-> color, hl |-> node_highlighted]
                ELSE click_transition(color, node_highlighted, hit)
           p == IF hit # OPEN /\ draw_rr_toggle # DRAW_NO_RR
                THEN draw_highlight_fan_in_fan_out(t.color, t.hl, hit)
                ELSE t
           nc1 == IF hit # OPEN /\ show_nets # DRAW_NO_NETS
                  THEN highlight_nets(p.color, net_color)
                  ELSE net_color
           redrawn == redraw_screen(p.color, p.hl, nc1, show_nets, draw_rr_toggle)
       IN  /\ color' = redrawn.color
           /\ node_highlighted' = redrawn.hl
           /\ net_color' = nc1
    /\ reset_pc' = "idle"
    /\ highlighted_before' = NoHistory
    /\ UNCHANGED <<resetFrame, block_color, sub_block_selected>>

\* A routing run rebuilds the RR graph, with as many nodes as it needs; its caller
\* then calls init_draw_coords.
new_routing ==
    /\ reset_pc \in {"idle", "reset"}
    /\ hit_pc # "init_draw_coords"
    /\ rr_node' \in {reset_rr_node(n) : n \in 0 .. MaxResetNodes}
    /\ hit_pc' = "init_draw_coords"
    /\ reset_pc' = "routed"
    /\ UNCHANGED <<hlVars, routeVars, pathVars, block_type, chan_width, draw_coords, click,
                   hit_result, block_color, sub_block_selected, show_graphics,
                   highlighted_before, clicked, g_clbs_nlist, screenVars>>

NextReset ==
    \/ highlight_blocks_begin
    \/ \E bnum \in DOMAIN block_color : highlight_blocks_clb(bnum)
    \/ \E hit \in Node \cup {OPEN} : highlight_blocks_rr(hit)
    \/ new_routing
    \/ init_draw_coords

SpecReset == InitReset /\ [][NextReset]_vars

\* C13: when deselect_all has returned, every RR node has the default color and
\* is not highlighted, every net is BLACK, every block has the color
\* draw_reset_blk_color gives its type, and no sub-block is selected.
C13_DeselectAllPostcondition ==
    reset_pc = "deselected" =>
        /\ \A n \in Node : color[n] = DEFAULT_RR_NODE_COLOR /\ ~node_highlighted[n]
        /\ \A inet \in Net : net_color[inet] = "BLACK"
        /\ \A i \in DOMAIN block_color :
              /\ block_color[i] = draw_reset_blk_color(i)
              /\ block_color[i] \notin {"SELECTED_COLOR", DRIVES_IT_COLOR, "DRIVEN_BY_IT_COLOR"}
              /\ \A k \in DOMAIN block_color :
                     block_type_index(k) = block_type_index(i) => block_color[k] = block_color[i]
        /\ ~sub_block_selected

\* C13 witness: deselect_all has returned from a state in which a node was
\* selected, a net and a block were highlighted and a sub-block was selected.
C13_Witness ==
    /\ reset_pc = "deselected"
    /\ highlighted_before.nodes
    /\ highlighted_before.nets
    /\ highlighted_before.blocks
    /\ highlighted_before.sub_block
    /\ \A i \in DOMAIN block_color : block_color[i] = draw_reset_blk_color(i)

\* The node array has exactly num_rr_nodes entries, each with the default color
\* and not highlighted, in the state after the step.
node_array_reset ==
    /\ DOMAIN color' = 0 .. num_rr_nodes - 1
    /\ DOMAIN node_highlighted' = 0 .. num_rr_nodes - 1
    /\ \A n \in DOMAIN color' : color'[n] = DEFAULT_RR_NODE_COLOR /\ ~node_highlighted'[n]

\* C20 (as stated): when init_draw_coords runs with graphics enabled after the RR
\* graph was rebuilt, the node array has exactly num_rr_nodes entries, every node
\* has the default color and is not highlighted, and every net color and every
\* block color is back at its default.
C20_HighlightStateReset ==
    [][(hit_pc = "init_draw_coords" /\ show_graphics) =>
       /\ node_array_reset
       /\ \A inet \in DOMAIN net_color' : net_color'[inet] = "BLACK"
       /\ \A bnum \in DOMAIN block_color' :
             block_color'[bnum] = draw_reset_blk_color(bnum)]_vars

\* C20 (amended): when init_draw_coords runs with graphics enabled after the RR
\* graph was rebuilt and the graph has a node, the node array has exactly
\* num_rr_nodes entries and every node has the default color and is not
\* highlighted; with no node in the graph the node array is left as it was; the
\* net colors, the block colors and the sub-block selection are left as they were.
C20_NodeHighlightReset ==
    [][(hit_pc = "init_draw_coords" /\ show_graphics) =>
       /\ num_rr_nodes # 0 => node_array_reset
       /\ num_rr_nodes = 0 => UNCHANGED <<color, node_highlighted>>
       /\ UNCHANGED <<net_color, block_color, sub_block_selected>>]_vars

\* C20 witness: init_draw_coords has run for a rebuilt graph that has nodes, while a
\* block was selected and a net colored by it: the nodes are at their defaults and
\* the block and the net are still highlighted.
C20_Witness ==
    /\ reset_pc = "reset" /\ hit_pc = "drawn" /\ show_graphics
    /\ num_rr_nodes > 0
    /\ DOMAIN color = 0 .. num_rr_nodes - 1
    /\ \A n \in Node : color[n] = DEFAULT_RR_NODE_COLOR /\ ~node_highlighted[n]
    /\ \E bnum \in DOMAIN block_color : block_color[bnum] = "SELECTED_COLOR"
    /\ \E inet \in DOMAIN net_color : net_color[inet] # "BLACK"

\* The blocks draw_highlight_blocks_color treats as the fan-in and fan-out of bnum:
\* the sinks of the nets it drives and the drivers of the nets that feed it.
fan_blocks(bnum) ==
    LET pins == block_nets(bnum, 0, Cardinality(DOMAIN net_color))
    IN  UNION {IF pins[k].type = "DRIVER" THEN net_sinks(pins[k].net)
               ELSE {net_pins(pins[k].net)[1]} : k \in 1 .. Len(pins)}

\* Block bnum and what is attached to it are back at their defaults in the state
\* after the step.
block_deselected(bnum) ==
    LET pins == block_nets(bnum, 0, Cardinality(DOMAIN net_color))
    IN  /\ block_color'[bnum] = draw_reset_blk_color(bnum)
        /\ \A k \in 1 .. Len(pins) : net_color'[pins[k].net] = "BLACK"
        /\ \A b \in fan_blocks(bnum) : block_color'[b] = draw_reset_blk_color(b)

\* A Ctrl-click on block bnum that reaches draw_highlight_blocks_color while the
\* block has SELECTED_COLOR.
deselecting_click(bnum) ==
    /\ highlight_blocks_clb(bnum)
    /\ ~sub_block_selected'
    /\ block_color[bnum] = "SELECTED_COLOR"

\* C23: when draw_highlight_blocks_color is called for a block that has
\* SELECTED_COLOR, afterwards the block has the default color of its type, every
\* net on one of its pins is BLACK and the blocks on those nets have their
\* type-default colors, in every netlist, also one where a net the block drives
\* has the block itself as a sink.
C23_BlockDeselect ==
    [][\A bnum \in DOMAIN block_color :
          deselecting_click(bnum) => block_deselected(bnum)]_vars

\* The same for the blocks that are not a sink of a net they drive.
BlockDeselectWithoutFeedback ==
    [][\A bnum \in DOMAIN block_color :
          (deselecting_click(bnum) /\ \A inet \in Net :
               net_pins(inet)[1] = bnum => bnum \notin net_sinks(inet))
          => block_deselected(bnum)]_vars

(***************************************************************************)
(* SpecPair: draw_partial_route called on its own with a sequence of RR    *)
(* nodes (lines 1684-1810), as drawroute does at lines 1665 and 1679 and   *)
(* draw_routed_timing_edge at line 2905.  The sequence is any pair or      *)
(* triple of nodes of the route graph; with all_edges every node has an    *)
(* edge to every node, so that a pair of any two types has its switch.     *)
(***************************************************************************)
pair_rr_node(all_edges) ==
    IF all_edges
    THEN [n \in RouteNode |-> [route_rr_node(FALSE)[n] EXCEPT !.edges = edge_list(RouteNode, 0)]]
    ELSE route_rr_node(FALSE)

MaxPairSeqLen == 3

pair_sequences ==
    UNION {[1 .. len -> RouteNode] : len \in 2 .. MaxPairSeqLen}

InitPair ==
    /\ rr_node \in {pair_rr_node(all_edges) : all_edges \in BOOLEAN}
    /\ trace_head = [inet \in {0} |-> <<>>]
    /\ color = [n \in RouteNode |-> DEFAULT_RR_NODE_COLOR]
    /\ node_highlighted = [n \in RouteNode |-> FALSE]
    /\ net_color = [inet \in {0} |-> "BLACK"]
    /\ show_nets = DRAW_NETS
    /\ draw_rr_toggle = DRAW_NO_RR
    /\ pc = "idle"
    /\ hit_node = OPEN
    /\ toggled = NoToggle
    /\ draw_route_type \in {"GLOBAL", "DETAILED"}
    /\ rt_pc = "last_partial"
    /\ tptr = 0
    /\ rr_nodes_to_draw = <<>>
    /\ partial \in pair_sequences
    /\ part_i = 1
    /\ chanx_track = reset_tracks(NullTable, chanx_locs)
    /\ chany_track = reset_tracks(NullTable, chany_locs)
    /\ handoffs = <<partial>>
    /\ drawn = <<>>
    /\ PathIdle
    /\ HitIdle
    /\ ResetIdle
    /\ RoutingOnScreen

NextPair ==
    \/ draw_partial_route_step
    \/ drawroute_end

SpecPair == InitPair /\ [][NextPair]_vars

\* The five legal classes of a (previous, current) type pair.
legal_pair(prev_type, rr_type) ==
    \/ prev_type = "OPIN" /\ rr_type \in {"CHANX", "CHANY", "IPIN"}
    \/ prev_type \in {"CHANX", "CHANY"} /\ rr_type \in {"CHANX", "CHANY", "IPIN"}

\* The loop of draw_partial_route is about to process the pair at part_i.
at_pair == rt_pc \in {"partial", "last_partial"} /\ part_i < Len(partial)
pair_prev_type == rr_node[partial[part_i]].type
pair_rr_type == rr_node[partial[part_i + 1]].type
fatal == {"vpr_throw", "assert_failed"}

\* C14 (as stated): processing a pair whose type pair is not one of the five legal
\* classes ends in a fatal error; the pair is neither skipped nor drawn.
C14_IllegalPairsFatal ==
    [][(at_pair /\ ~legal_pair(pair_prev_type, pair_rr_type)) => rt_pc' \in fatal]_vars

\* C14 (amended): a pair outside the five legal classes whose current node is an
\* IPIN, a CHANX or a CHANY ends in a fatal error.  A pair whose current node is an
\* OPIN draws that pin and goes on, and a pair whose current node is a SOURCE or a
\* SINK is skipped, whatever the type of the previous node, provided the previous
\* node has an edge to the current one (find_switch asserts it).
C14_IllegalIntoPinOrWireFatal ==
    [][at_pair =>
       LET has_edge == find_switch(partial[part_i], partial[part_i + 1])
           last == drawn'[Len(drawn')]
       IN  /\ (pair_rr_type \in {"IPIN", "CHANX", "CHANY"}
                  /\ ~legal_pair(pair_prev_type, pair_rr_type)) => rt_pc' \in fatal
           /\ ~has_edge => rt_pc' = "assert_failed"
           /\ (pair_rr_type = "OPIN" /\ has_edge) =>
                 /\ rt_pc' = rt_pc /\ part_i' = part_i + 1
                 /\ last.calls = <<"draw_rr_pin">>
           /\ (pair_rr_type \in {"SOURCE", "SINK"} /\ has_edge) =>
                 /\ rt_pc' = rt_pc /\ part_i' = part_i + 1
                 /\ last.calls = <<>>]_vars

\* C14 witness: the first pair of a sequence, a CHANX followed by a SINK it has an
\* edge to, was skipped, and the second pair, that SINK followed by a wire it has an
\* edge to, has thrown.
C14_Witness ==
    /\ rt_pc = "vpr_throw" /\ part_i = 2 /\ Len(partial) = 3
    /\ find_switch(partial[2], partial[3])
    /\ rr_node[partial[1]].type = "CHANX"
    /\ rr_node[partial[2]].type = "SINK"
    /\ rr_node[partial[3]].type \in {"CHANX", "CHANY"}
    /\ Len(drawn) = 2 /\ drawn[1].calls = <<>> /\ drawn[1].status = "ok"

(***************************************************************************)
(* SpecEdge: draw_rr draws the edges between two wires of one channel.     *)
(*                                                                         *)
(* The RR graph is two bidirectional wires of the same axis in the same    *)
(* channel, node 0 and node 1, each with an edge to the other.  Two wires  *)
(* on the same track of a channel do not overlap, so the wires are on      *)
(* different tracks wherever their extents share a tile.  draw_rr_edges    *)
(* runs for node 0 and then for node 1 and the line each call draws is     *)
(* recorded in drawn.                                                      *)
(***************************************************************************)
\* The extents low .. high a wire can have along an axis with len tiles.
extents(len) == {e \in (1 .. len) \X (1 .. len) : e[1] <= e[2]}

extents_overlap(e, f) == ~(f[2] < e[1]) /\ ~(f[1] > e[2])

edge_wire(type, e, track, other) ==
    IF type = "CHANX"
    THEN [type |-> "CHANX", xlow |-> e[1], xhigh |-> e[2], ylow |-> ny, yhigh |-> ny,
          ptc_num |-> track, direction |-> "BI_DIRECTION", edges |-> <<other>>]
    ELSE [type |-> "CHANY", xlow |-> nx, xhigh |-> nx, ylow |-> e[1], yhigh |-> e[2],
          ptc_num |-> track, direction |-> "BI_DIRECTION", edges |-> <<other>>]

edge_rr_nodes ==
    {[n \in 0 .. 1 |-> IF n = 0 THEN edge_wire(type, e, ta, 1) ELSE edge_wire(type, f, tb, 0)] :
        <<type, e, f, ta, tb>> \in
            {q \in {"CHANX", "CHANY"} \X (extents(nx) \cup extents(ny))
                       \X (extents(nx) \cup extents(ny))
                       \X (0 .. MaxChanWidth - 1) \X (0 .. MaxChanWidth - 1) :
                /\ q[2] \in (IF q[1] = "CHANX" THEN extents(nx) ELSE extents(ny))
                /\ q[3] \in (IF q[1] = "CHANX" THEN extents(nx) ELSE extents(ny))
                /\ extents_overlap(q[2], q[3]) => q[4] # q[5]}}

\* draw_chanx_to_chanx_edge (lines 1266-1349): the line it draws from a point
\* (x1, y1) on from_node to a point (x2, y2) on to_node, or the assertion it fails.
draw_chanx_to_chanx_edge(from_node, to_node, to_track) ==
    LET from_chan == draw_get_rr_chan_bbox(from_node)
        to_chan == draw_get_rr_chan_bbox(to_node)
        y1 == from_chan.bottom
        y2 == to_chan.bottom
        from_xlow == rr_node[from_node].xlow
        from_xhigh == rr_node[from_node].xhigh
        to_xlow == rr_node[to_node].xlow
        to_xhigh == rr_node[to_node].xhigh
        tile_width == draw_coords.tile_width
        line(x1, x2) == [status |-> "ok", p1 |-> <<x1, y1>>, p2 |-> <<x2, y2>>]
        failed == [status |-> "assert_failed", p1 |-> <<>>, p2 |-> <<>>]
    IN  IF to_xhigh < from_xlow THEN line(from_chan.left, to_chan.right)
        ELSE IF to_xlow > from_xhigh THEN line(from_chan.right, to_chan.left)
        ELSE IF rr_node[to_node].direction # "BI_DIRECTION"
        THEN IF to_track % 2 = 0
             THEN IF from_xlow < to_xlow
                  THEN line(draw_coords.tile_x[to_xlow - 1] + tile_width, to_chan.left)
                  ELSE failed
             ELSE IF from_xhigh > to_xhigh
                  THEN line(draw_coords.tile_x[to_xhigh + 1], to_chan.right)
                  ELSE failed
        ELSE IF to_xlow < from_xlow
        THEN line(from_chan.left, draw_coords.tile_x[from_xlow - 1] + tile_width)
        ELSE IF from_xlow < to_xlow
        THEN line(draw_coords.tile_x[to_xlow - 1] + tile_width, to_chan.left)
        ELSE IF to_xhigh > from_xhigh
        THEN line(from_chan.right, draw_coords.tile_x[from_xhigh + 1])
        ELSE IF from_xhigh > to_xhigh
        THEN line(draw_coords.tile_x[to_xhigh + 1], to_chan.right)
        ELSE line(from_chan.left, from_chan.left + tile_width)

\* draw_chany_to_chany_edge (lines 1352-1434), likewise.
draw_chany_to_chany_edge(from_node, to_node, to_track) ==
    LET from_chan == draw_get_rr_chan_bbox(from_node)
        to_chan == draw_get_rr_chan_bbox(to_node)
        x1 == from_chan.left
        x2 == to_chan.left
        from_ylow == rr_node[from_node].ylow
        from_yhigh == rr_node[from_node].yhigh
        to_ylow == rr_node[to_node].ylow
        to_yhigh == rr_node[to_node].yhigh
        tile_width == draw_coords.tile_width
        line(y1, y2) == [status |-> "ok", p1 |-> <<x1, y1>>, p2 |-> <<x2, y2>>]
    IN  IF to_yhigh < from_ylow THEN line(from_chan.bottom, to_chan.top)
        ELSE IF to_ylow > from_yhigh THEN line(from_chan.top, to_chan.bottom)
        ELSE IF rr_node[to_node].direction # "BI_DIRECTION"
        THEN IF to_track % 2 = 0
             THEN line(draw_coords.tile_y[to_ylow - 1] + tile_width, to_chan.bottom)
             ELSE line(draw_coords.tile_y[to_yhigh + 1], to_chan.top)
        ELSE IF to_ylow < from_ylow
        THEN line(from_chan.bottom, draw_coords.tile_y[from_ylow - 1] + tile_width)
        ELSE IF from_ylow < to_ylow
        THEN line(draw_coords.tile_y[to_ylow - 1] + tile_width, to_chan.bottom)
        ELSE IF to_yhigh > from_yhigh
        THEN line(from_chan.top, draw_coords.tile_y[from_yhigh + 1])
        ELSE IF from_yhigh > to_yhigh
        THEN line(draw_coords.tile_y[to_yhigh + 1], to_chan.top)
        ELSE line(from_chan.bottom, from_chan.bottom + tile_width)

\* The state when draw_rr starts on the nodes: the coordinates are loaded for the
\* channel widths, every color is the default, all edges are shown.
InitEdge ==
    /\ rr_node \in edge_rr_nodes
    /\ trace_head = <<>>
    /\ color = [n \in 0 .. 1 |-> DEFAULT_RR_NODE_COLOR]
    /\ node_highlighted = [n \in 0 .. 1 |-> FALSE]
    /\ net_color = <<>>
    /\ show_nets = DRAW_NO_NETS
    /\ draw_rr_toggle = DRAW_RR_TOGGLE_MAX - 1
    /\ pc = "idle"
    /\ hit_node = OPEN
    /\ toggled = NoToggle
    /\ draw_route_type = "DETAILED"
    /\ rt_pc = "draw_rr"
    /\ tptr = 0
    /\ rr_nodes_to_draw = <<>>
    /\ partial = <<>>
    /\ part_i = 0
    /\ chanx_track = <<>>
    /\ chany_track = <<>>
    /\ handoffs = <<>>
    /\ drawn = <<>>
    /\ PathIdle
    /\ block_type = EMPTY_TYPE
    /\ chan_width = [x_list |-> [j \in 0 .. ny |-> MaxChanWidth],
                     y_list |-> [i \in 0 .. nx |-> MaxChanWidth]]
    /\ draw_coords \in {init_draw_coords_coords(width_val, block_type, chan_width) :
                           width_val \in tile_widths}
    /\ click = <<>>
    /\ hit_result = OPEN
    /\ hit_pc = "drawn"
    /\ ResetIdle
    /\ RoutingOnScreen

\* draw_rr_edges(inode) (lines 1004-1160) for the wire part_i in draw_rr's loop
\* over the nodes (lines 809-850): the wire's one edge goes to a wire of its own
\* type and is drawn by the same-axis routine.
draw_rr_edges ==
    /\ rt_pc = "draw_rr"
    /\ part_i < num_rr_nodes
    /\ LET inode == part_i
           to_node == rr_node[inode].edges[1]
           to_ptc_num == rr_node[to_node].ptc_num
           r == IF rr_node[inode].type = "CHANX"
                THEN draw_chanx_to_chanx_edge(inode, to_node, to_ptc_num)
                ELSE draw_chany_to_chany_edge(inode, to_node, to_ptc_num)
       IN  /\ drawn' = Append(drawn, [from_node |-> inode, to_node |-> to_node,
                                      status |-> r.status, p1 |-> r.p1, p2 |-> r.p2])
           /\ part_i' = part_i + 1
           /\ rt_pc' = IF r.status # "ok" THEN r.status
                       ELSE IF part_i + 1 >= num_rr_nodes THEN "edges_drawn"
                       ELSE "draw_rr"
    /\ UNCHANGED <<rr_node, hlVars, draw_route_type, tptr, rr_nodes_to_draw, partial,
                   chanx_track, chany_track, handoffs, pathVars, hitVars, resetVars, screenVars>>

NextEdge == draw_rr_edges

SpecEdge == InitEdge /\ [][NextEdge]_vars

\* The extent of a wire along its own axis.
wire_extent(n) ==
    IF rr_node[n].type = "CHANX" THEN <<rr_node[n].xlow, rr_node[n].xhigh>>
    ELSE <<rr_node[n].ylow, rr_node[n].yhigh>>

\* C15: for two bidirectional wires A and B of the same axis whose extents
\* overlap, the line drawn for the edge A->B has the same pair of endpoints as the
\* line drawn for the edge B->A, in every overlap case.
C15_BidirectionalSymmetry ==
    (rt_pc = "edges_drawn" /\ extents_overlap(wire_extent(0), wire_extent(1))) =>
        {drawn[1].p1, drawn[1].p2} = {drawn[2].p1, drawn[2].p2}

\* The two lines do have the same endpoints in the overlap cases where the extents
\* differ (one wire starts lower, or both start together and one ends higher).
SymmetricWhenExtentsDiffer ==
    (/\ rt_pc = "edges_drawn"
     /\ extents_overlap(wire_extent(0), wire_extent(1))
     /\ wire_extent(0) # wire_extent(1)) =>
        {drawn[1].p1, drawn[1].p2} = {drawn[2].p1, drawn[2].p2}

(***************************************************************************)
(* SpecPins: the pin coordinates as a function of the tile type.           *)
(*                                                                         *)
(* One tile at (1, 1) of a type with P pins and capacity C, for every      *)
(* P >= C >= 1 up to MaxNumPins, every pin on all four sides; the RR graph *)
(* is the tile's pins, node ipin being pin ipin.  init_draw_coords sets    *)
(* tile_width and pin_size, and draw_rr then draws the pins of a side: the *)
(* centres draw_get_rr_pin_coords returns are recorded in drawn.           *)
(***************************************************************************)
pin_block_types ==
    {[num_pins |-> P, capacity |-> C, pinloc |-> pinloc_table(P, 0, TRUE)] :
        <<P, C>> \in {q \in (1 .. MaxNumPins) \X (1 .. MaxNumPins) : q[1] >= q[2]}}

pin_rr_node(btype) ==
    [ipin \in 0 .. btype.num_pins - 1 |->
        [type |-> IF ipin % 2 = 0 THEN "IPIN" ELSE "OPIN", xlow |-> 1, ylow |-> 1,
         xhigh |-> 1, yhigh |-> 1, ptc_num |-> ipin, edges |-> <<>>]]

InitPins ==
    /\ \E W \in {1, MaxChanWidth} :
          chan_width = [x_list |-> [j \in 0 .. ny |-> W], y_list |-> [i \in 0 .. nx |-> W]]
    /\ block_type \in pin_block_types
    /\ rr_node = pin_rr_node(block_type)
    /\ trace_head = <<>>
    /\ color = <<>>
    /\ node_highlighted = <<>>
    /\ net_color = <<>>
    /\ show_nets = DRAW_NO_NETS
    /\ draw_rr_toggle = DRAW_RR_TOGGLE_MAX - 1
    /\ pc = "idle"
    /\ hit_node = OPEN
    /\ toggled = NoToggle
    /\ RouteIdle
    /\ PathIdle
    /\ draw_coords = <<>>
    /\ click = <<>>
    /\ hit_result = OPEN
    /\ hit_pc = "init_draw_coords"
    /\ ResetIdle
    /\ RoutingOnScreen

\* draw_rr's calls of draw_rr_pin (lines 1502-1542) for the pins of the tile, as
\* far as side iside goes: the centre draw_get_rr_pin_coords returns for each pin.
draw_rr_pins ==
    /\ hit_pc = "drawn"
    /\ \E iside \in 0 .. 3 :
          drawn' = [n \in 1 .. num_rr_nodes |->
                       [ipin |-> rr_node[n - 1].ptc_num, iside |-> iside,
                        cen |-> draw_get_rr_pin_coords(rr_node[n - 1], iside, 0, 0)]]
    /\ hit_pc' = "pins_drawn"
    /\ UNCHANGED <<rr_node, hlVars, draw_route_type, rt_pc, tptr, rr_nodes_to_draw, partial,
                   part_i, chanx_track, chany_track, handoffs, pathVars, block_type,
                   chan_width, draw_coords, click, hit_result, resetVars, screenVars>>

NextPins ==
    \/ init_draw_coords
    \/ draw_rr_pins

SpecPins == InitPins /\ [][NextPins]_vars

\* The offset of a drawn pin along its side, from the tile's corner.
pin_offset(d) ==
    IF e_side[d.iside + 1] \in {"LEFT", "RIGHT"}
    THEN d.cen[2] - draw_coords.tile_y[1]
    ELSE d.cen[1] - draw_coords.tile_x[1]

\* The pins of the side drawn never overlap: every offset is strictly between 0 and
\* tile_width, the offsets grow strictly with ipin, and two distinct pins are at
\* least 2 * pin_size apart.
pins_never_overlap ==
    /\ \A n \in 1 .. Len(drawn) :
          pin_offset(drawn[n]) > 0 /\ pin_offset(drawn[n]) < draw_coords.tile_width
    /\ \A a, b \in 1 .. Len(drawn) :
          drawn[a].ipin < drawn[b].ipin =>
              /\ pin_offset(drawn[a]) < pin_offset(drawn[b])
              /\ pin_offset(drawn[b]) - pin_offset(drawn[a]) >= 2 * draw_coords.pin_size

\* C17 (as stated): with pin_size and tile_width as set by init_draw_coords, for
\* every tile type with P pins and capacity C, P >= C >= 1, the pins of a side
\* never overlap.
C17_PinsNeverOverlap ==
    hit_pc = "pins_drawn" => pins_never_overlap

\* C17 (amended): the same for every tile type whose number of pins P is a multiple
\* of its capacity C.
C17_PinsNeverOverlapInWholeSubTiles ==
    (hit_pc = "pins_drawn" /\ block_type.num_pins % block_type.capacity = 0) =>
        pins_never_overlap

\* C17 witness: the pins of a side of a tile with more than one sub-tile are drawn,
\* with a pin_size below its cap of 0.3; the second pin is in the second sub-tile,
\* two steps after the first.
C17_Witness ==
    /\ hit_pc = "pins_drawn"
    /\ block_type.capacity > 1
    /\ block_type.num_pins % block_type.capacity = 0
    /\ Len(drawn) = block_type.num_pins
    /\ draw_coords.pin_size < (3 * Scale) \div 10
    /\ pin_offset(drawn[2]) - pin_offset(drawn[1]) =
           2 * (draw_coords.tile_width \div (block_type.num_pins + block_type.capacity))

(***************************************************************************)
(* SpecBbox: draw_get_rr_chan_bbox as a function of the node and the       *)
(* coordinates.  The RR graph is one node: a CHANX or a CHANY wire of any  *)
(* extent, channel and track of the grid, or a SOURCE, SINK, IPIN or OPIN. *)
(* After init_draw_coords the function is called for the node, twice.      *)
(***************************************************************************)
MaxBboxCalls == 2

bbox_nodes ==
    {[type |-> "CHANX", xlow |-> e[1], xhigh |-> e[2], ylow |-> j, yhigh |-> j,
      ptc_num |-> t, edges |-> <<>>] :
        <<e, j, t>> \in extents(nx) \X (0 .. ny) \X (0 .. MaxChanWidth - 1)}
    \cup
    {[type |-> "CHANY", xlow |-> i, xhigh |-> i, ylow |-> e[1], yhigh |-> e[2],
      ptc_num |-> t, edges |-> <<>>] :
        <<e, i, t>> \in extents(ny) \X (0 .. nx) \X (0 .. MaxChanWidth - 1)}
    \cup
    {[type |-> t, xlow |-> 1, xhigh |-> 1, ylow |-> 1, yhigh |-> 1, ptc_num |-> 0,
      edges |-> <<>>] : t \in {"SOURCE", "SINK", "IPIN", "OPIN"}}

InitBbox ==
    /\ rr_node \in {[n \in {0} |-> node] : node \in bbox_nodes}
    /\ chan_width = [x_list |-> [j \in 0 .. ny |-> MaxChanWidth],
                     y_list |-> [i \in 0 .. nx |-> MaxChanWidth]]
    /\ block_type = [num_pins |-> 1, capacity |-> 1, pinloc |-> pinloc_table(1, 0, TRUE)]
    /\ trace_head = <<>>
    /\ color = <<>>
    /\ node_highlighted = <<>>
    /\ net_color = <<>>
    /\ show_nets = DRAW_NO_NETS
    /\ draw_rr_toggle = DRAW_RR_TOGGLE_MAX - 1
    /\ pc = "idle"
    /\ hit_node = OPEN
    /\ toggled = NoToggle
    /\ RouteIdle
    /\ PathIdle
    /\ draw_coords = <<>>
    /\ click = <<>>
    /\ hit_result = OPEN
    /\ hit_pc = "init_draw_coords"
    /\ ResetIdle
    /\ RoutingOnScreen

\* A call draw_get_rr_chan_bbox(inode); the rectangle it returns is recorded.
call_draw_get_rr_chan_bbox ==
    /\ hit_pc \in {"drawn", "bbox"}
    /\ Len(drawn) < MaxBboxCalls
    /\ \E inode \in Node :
          drawn' = Append(drawn, [inode |-> inode, bound_box |-> draw_get_rr_chan_bbox(inode)])
    /\ hit_pc' = "bbox"
    /\ UNCHANGED <<rr_node, hlVars, draw_route_type, rt_pc, tptr, rr_nodes_to_draw, partial,
                   part_i, chanx_track, chany_track, handoffs, pathVars, block_type,
                   chan_width, draw_coords, click, hit_result, resetVars, screenVars>>

NextBbox ==
    \/ init_draw_coords
    \/ call_draw_get_rr_chan_bbox

SpecBbox == InitBbox /\ [][NextBbox]_vars

\* C18: draw_get_rr_chan_bbox returns, for a CHANX node, left = tile_x[xlow],
\* right = tile_x[xhigh] + tile_width and bottom = top = tile_y[ylow] + tile_width
\* + 1 + track; for a CHANY node, left = right = tile_x[xlow] + tile_width + 1 +
\* track, bottom = tile_y[ylow] and top = tile_y[yhigh] + tile_width; for any
\* other node the all-zero rectangle; and repeated calls with unchanged inputs
\* return identical rectangles.
C18_ChannelBoundingBox ==
    hit_pc = "bbox" =>
        /\ \A k \in 1 .. Len(drawn) :
              LET n == rr_node[drawn[k].inode]
                  b == drawn[k].bound_box
                  tile_x == draw_coords.tile_x
                  tile_y == draw_coords.tile_y
                  tile_width == draw_coords.tile_width
              IN  /\ n.type = "CHANX" =>
                        /\ b.left = tile_x[n.xlow]
                        /\ b.right = tile_x[n.xhigh] + tile_width
                        /\ b.bottom = tile_y[n.ylow] + tile_width + Scale + n.ptc_num * Scale
                        /\ b.top = b.bottom
                  /\ n.type = "CHANY" =>
                        /\ b.left = tile_x[n.xlow] + tile_width + Scale + n.ptc_num * Scale
                        /\ b.right = b.left
                        /\ b.bottom = tile_y[n.ylow]
                        /\ b.top = tile_y[n.yhigh] + tile_width
                  /\ n.type \notin {"CHANX", "CHANY"} =>
                        b.left = 0 /\ b.right = 0 /\ b.bottom = 0 /\ b.top = 0
        /\ \A k, l \in 1 .. Len(drawn) :
              drawn[k].inode = drawn[l].inode => drawn[k].bound_box = drawn[l].bound_box

\* C18 witness: the box of a CHANY wire longer than one tile, on a track other than
\* the first, has been returned twice.
C18_Witness ==
    /\ hit_pc = "bbox"
    /\ Len(drawn) = 2
    /\ rr_node[0].type = "CHANY"
    /\ rr_node[0].yhigh > rr_node[0].ylow
    /\ rr_node[0].ptc_num > 0
    /\ drawn[2].bound_box.top > drawn[2].bound_box.bottom + draw_coords.tile_width

(***************************************************************************)
(* SpecTree: the lifetime of the route tree over repeated calls of         *)
(* trace_routed_connection_rr_nodes (lines 2916-2941), one for every       *)
(* routed timing edge a redraw draws.                                      *)
(*                                                                         *)
(* The route-tree timing structures either are already allocated when the  *)
(* first call is made (the router holds them while it runs and the screen  *)
(* is updated between its iterations) or are not.  The tree nodes of the   *)
(* q-th call are the allocations <<q, 1>> .. <<q, size>>.                  *)
(***************************************************************************)
MaxQueries == 2

\* alloc_route_tree_timing_structs(exists_ok = true): allocates the structures
\* unless they exist; returns whether it allocated them.
alloc_route_tree_timing_structs(structs) ==
    [allocated |-> ~structs, structs |-> TRUE]

\* traceback_to_route_tree: one tree node is allocated for every node of the tree
\* it returns.
traceback_to_route_tree(tree, query) == {<<query, i>> : i \in 1 .. tree.size}

\* free_route_tree_timing_structs: the structures are released and, with them,
\* every route-tree node built from them.
free_route_tree_timing_structs(allocated) ==
    [structs |-> FALSE, allocated |-> {}]

InitTree ==
    /\ HighlightIdle
    /\ RouteIdle
    /\ rt_root = <<>>
    /\ sink_rr_node = OPEN
    /\ rr_nodes_on_path = <<>>
    /\ on_path_to_sink = FALSE
    /\ path_pc = "idle"
    /\ rt_allocated = {}
    /\ rt_structs \in BOOLEAN
    /\ rt_queries = 0
    /\ HitIdle
    /\ ResetIdle
    /\ RoutingOnScreen

\* trace_routed_connection_rr_nodes (lines 2916-2941), the whole call: the
\* structures are allocated if need be, the tree is built and searched, the vector
\* is reversed, and the structures are freed if this call allocated them.
trace_routed_connection_rr_nodes ==
    /\ path_pc \in {"idle", "returned"}
    /\ rt_queries < MaxQueries
    /\ \E tree \in route_trees, sink \in 0 .. MaxTreeNodes :
          LET alloc == alloc_route_tree_timing_structs(rt_structs)
              allocated_route_tree_structs == alloc.allocated
              built == rt_allocated \cup traceback_to_route_tree(tree, rt_queries + 1)
              r == trace_routed_connection_rr_nodes_recurr(tree, 1, sink, <<>>)
              freed == free_route_tree_timing_structs(built)
          IN  /\ rt_root' = tree
              /\ sink_rr_node' = sink
              /\ on_path_to_sink' = r.found
              /\ rr_nodes_on_path' = reverse(r.path)
              /\ IF allocated_route_tree_structs
                 THEN rt_structs' = freed.structs /\ rt_allocated' = freed.allocated
                 ELSE rt_structs' = alloc.structs /\ rt_allocated' = built
    /\ rt_queries' = rt_queries + 1
    /\ path_pc' = "returned"
    /\ UNCHANGED <<rr_node, hlVars, routeVars, hitVars, resetVars, screenVars>>

NextTree == trace_routed_connection_rr_nodes

SpecTree == InitTree /\ [][NextTree]_vars

\* C19: the route tree built inside trace_routed_connection_rr_nodes is freed
\* before the function returns: after any number of calls no route-tree node
\* allocated by this or by an earlier call is still allocated.
C19_RouteTreeLifetime ==
    path_pc = "returned" => rt_allocated = {}

(***************************************************************************)
(* SpecSelect: clicks outside every block with the routing on screen, each *)
(* handled from highlight_blocks' entry to the return of drawscreen, and   *)
(* the Toggle Nets and Toggle RR buttons between them.  The graph is one   *)
(* of HlGraphs and every net has the routed traceback.                     *)
(***************************************************************************)
InitSelect ==
    /\ rr_node \in HlGraphs
    /\ trace_head = [inet \in 0 .. NumNets - 1 |-> routed_trace]
    /\ color = [n \in HlNode |-> DEFAULT_RR_NODE_COLOR]
    /\ node_highlighted = [n \in HlNode |-> FALSE]
    /\ net_color = [inet \in 0 .. NumNets - 1 |-> "BLACK"]
    /\ show_nets = DRAW_NO_NETS
    /\ draw_rr_toggle = DRAW_NO_RR
    /\ pc = "idle"
    /\ hit_node = OPEN
    /\ toggled = NoToggle
    /\ RouteIdle
    /\ PathIdle
    /\ HitIdle
    /\ ResetIdle
    /\ RoutingOnScreen

\* highlight_blocks for a click outside every block (lines 2099-2101, 2141-2146)
\* and the whole of highlight_rr_nodes (lines 2014-2080).  hit is what
\* draw_check_rr_node_hit returns for the click; with no view that shows nodes the
\* handler returns before the hit test.
mouse_click_rr(ctrl_pressed, hit) ==
    /\ pc = "idle"
    /\ LET c0 == IF ctrl_pressed THEN color ELSE deselect_all_nodes.color
           h0 == IF ctrl_pressed THEN node_highlighted ELSE deselect_all_nodes.hl
           nc0 == IF ctrl_pressed THEN net_color ELSE deselect_all_nets
           tested == ~(draw_rr_toggle = DRAW_NO_RR /\ show_nets = DRAW_NO_NETS)
           node == IF tested THEN hit ELSE OPEN
           t == IF node = OPEN THEN [color |-> c0, hl |-> h0]
                ELSE click_transition(c0, h0, node)
           p == IF node # OPEN /\ draw_rr_toggle # DRAW_NO_RR
                THEN draw_highlight_fan_in_fan_out(t.color, t.hl, node)
                ELSE t
           nc1 == IF node # OPEN /\ show_nets # DRAW_NO_NETS
                  THEN highlight_nets(p.color, nc0)
                  ELSE nc0
           redrawn == drawscreen(p.color, p.hl, nc1, show_nets, draw_rr_toggle)
       IN  /\ color' = redrawn.color
           /\ node_highlighted' = redrawn.hl
           /\ net_color' = nc1
           /\ clicked' = [before |-> clicked.before \cup ({clicked.last} \ {OPEN}),
                          last |-> node,
                          selected |-> node # OPEN /\ t.color[node] = "MAGENTA"
                                                  /\ t.hl[node],
                          nets_shown |-> show_nets # DRAW_NO_NETS]
    /\ block_color' = IF ctrl_pressed THEN block_color ELSE deselect_all_blocks(block_color)
    /\ sub_block_selected' = IF ctrl_pressed THEN sub_block_selected
                             ELSE clear_selected_sub_block
    /\ toggled' = NoToggle
    /\ UNCHANGED <<rr_node, trace_head, show_nets, draw_rr_toggle, pc, hit_node, routeVars,
                   pathVars, hitVars, show_graphics, highlighted_before, reset_pc,
                   g_clbs_nlist, screenVars>>

NextSelect ==
    \/ \E ctrl_pressed \in BOOLEAN, hit \in HitResults : mouse_click_rr(ctrl_pressed, hit)
    \/ toggle_nets
    \/ toggle_rr

SpecSelect == InitSelect /\ [][NextSelect]_vars

\* C21: a click that hits an RR node no earlier click has hit leaves the node
\* selected (MAGENTA, node_highlighted) by the click's transition, whatever
\* clicks, with or without Ctrl, view toggles and redraws came before.
C21_FirstClickSelects ==
    (clicked.last # OPEN /\ clicked.last \notin clicked.before) => clicked.selected

\* The nets whose traceback has node n.
nets_through(n) ==
    {inet \in Net : \E i \in 1 .. Len(trace_head[inet]) : trace_head[inet][i] = n}

\* C22: with nets shown, after a click that selects node N, highlight_nets has
\* left every net whose traceback has N colored MAGENTA, whatever Ctrl-clicks and
\* redraws came before, also ones that deselected another node of the traceback.
C22_SelectHighlightsNet ==
    (clicked.nets_shown /\ clicked.selected) =>
        \A inet \in nets_through(clicked.last) : net_color[inet] = "MAGENTA"

(***************************************************************************)
(* SpecScreen: the picture on screen and its buttons.  update_screen is    *)
(* called with the placement or the routing picture, with or without       *)
(* timing info; between the calls the event loop runs and the user presses *)
(* the buttons that exist.  The RR graph is the plain route of HlGraphs    *)
(* with its net routed.                                                    *)
(***************************************************************************)
\* create_button and destroy_button of the graphics package: the buttons that
\* exist afterwards, and the calls that named a button in the wrong state.
create_button(b, name) ==
    [buttons |-> b.buttons \cup {name},
     faults |-> IF name \in b.buttons THEN b.faults \cup {<<"create", name>>} ELSE b.faults]

destroy_button(b, name) ==
    [buttons |-> b.buttons \ {name},
     faults |-> IF name \notin b.buttons THEN b.faults \cup {<<"destroy", name>>}
                ELSE b.faults]

\* update_screen, lines 189-215: the buttons after the change from picture from
\* to picture to.
set_up_buttons(b, from, to, timing) ==
    LET crit(x) == IF timing THEN create_button(x, "Crit. Path") ELSE x
        nets_blk == create_button(create_button(b, "Toggle Nets"), "Blk Internal")
        rr_cong(x) == create_button(create_button(x, "Toggle RR"), "Congestion")
        gone == destroy_button(destroy_button(b, "Toggle RR"), "Congestion")
    IN  IF from = to THEN b
        ELSE IF to = PLACEMENT /\ from = NO_PICTURE THEN crit(nets_blk)
        ELSE IF to = ROUTING /\ from = PLACEMENT THEN rr_cong(b)
        ELSE IF to = PLACEMENT /\ from = ROUTING
        THEN IF timing THEN destroy_button(gone, "Crit. Path") ELSE gone
        ELSE IF to = ROUTING /\ from = NO_PICTURE THEN crit(rr_cong(nets_blk))
        ELSE b

\* The state init_graphics_state and alloc_draw_structs leave: graphics enabled,
\* no picture shown yet, no button made, every view off.
InitScreen ==
    /\ rr_node = hl_rr_node([n \in HlNode |-> route_edges(n)])
    /\ trace_head = [inet \in 0 .. NumNets - 1 |-> routed_trace]
    /\ color = [n \in HlNode |-> DEFAULT_RR_NODE_COLOR]
    /\ node_highlighted = [n \in HlNode |-> FALSE]
    /\ net_color = [inet \in 0 .. NumNets - 1 |-> "BLACK"]
    /\ show_nets = DRAW_NO_NETS
    /\ draw_rr_toggle = DRAW_NO_RR
    /\ pc = "idle"
    /\ hit_node = OPEN
    /\ toggled = NoToggle
    /\ RouteIdle
    /\ PathIdle
    /\ HitIdle
    /\ ResetIdle
    /\ pic_on_screen = NO_PICTURE
    /\ show_congestion = DRAW_NO_CONGEST
    /\ show_crit_path = DRAW_NO_CRIT_PATH
    /\ setup_timing_info = FALSE
    /\ buttons = {}
    /\ button_faults = {}
    /\ untimed_call = FALSE

\* update_screen (lines 175-231) up to the return of drawscreen.
update_screen(pic_on_screen_val, timing) ==
    /\ pc = "idle"
    /\ IF ~show_graphics
       THEN UNCHANGED <<color, node_highlighted, screenVars>>
       ELSE LET b == set_up_buttons([buttons |-> buttons, faults |-> button_faults],
                                    pic_on_screen, pic_on_screen_val, timing)
                redrawn == IF pic_on_screen_val = PLACEMENT
                           THEN [color |-> color, hl |-> node_highlighted]
                           ELSE redraw_screen(color, node_highlighted, net_color,
                                              show_nets, draw_rr_toggle)
            IN  /\ buttons' = b.buttons
                /\ button_faults' = b.faults
                /\ setup_timing_info' = timing
                /\ pic_on_screen' = pic_on_screen_val
                /\ untimed_call' = (untimed_call \/ ~timing)
                /\ color' = redrawn.color
                /\ node_highlighted' = redrawn.hl
                /\ UNCHANGED <<show_congestion, show_crit_path>>
    /\ UNCHANGED <<rr_node, trace_head, net_color, show_nets, draw_rr_toggle, pc, hit_node,
                   toggled, routeVars, pathVars, hitVars, resetVars>>

\* toggle_congestion (lines 387-415), with the redraw it ends in; draw_congestion
\* draws over the picture and colors no node.
toggle_congestion ==
    /\ pc = "idle"
    /\ LET new_state == (show_congestion + 1) % DRAW_CONGEST_MAX
           reset == reset_nets_congestion_and_rr
           redrawn == drawscreen(color, node_highlighted, net_color,
                                 reset.show_nets, reset.draw_rr_toggle)
       IN  /\ show_nets' = reset.show_nets
           /\ draw_rr_toggle' = reset.draw_rr_toggle
           /\ show_congestion' = new_state
           /\ color' = redrawn.color
           /\ node_highlighted' = redrawn.hl
    /\ toggled' = NoToggle
    /\ UNCHANGED <<routeVars, pathVars, hitVars, resetVars, toggleFrame, rr_node, trace_head,
                   net_color, pc, hit_node>>

\* toggle_crit_path (lines 434-472), with the redraw it ends in.  The VTR_ASSERT
\* of line 450 stops the program when no picture is on screen.
toggle_crit_path ==
    /\ pc = "idle"
    /\ pic_on_screen \in {PLACEMENT, ROUTING}
    /\ show_crit_path' =
          IF pic_on_screen = PLACEMENT
          THEN IF show_crit_path = DRAW_NO_CRIT_PATH THEN DRAW_CRIT_PATH_FLYLINES
               ELSE IF show_crit_path = DRAW_CRIT_PATH_FLYLINES
               THEN DRAW_CRIT_PATH_FLYLINES_DELAYS
               ELSE DRAW_NO_CRIT_PATH
          ELSE IF show_crit_path = DRAW_NO_CRIT_PATH THEN DRAW_CRIT_PATH_FLYLINES
               ELSE IF show_crit_path = DRAW_CRIT_PATH_FLYLINES
               THEN DRAW_CRIT_PATH_FLYLINES_DELAYS
               ELSE IF show_crit_path = DRAW_CRIT_PATH_FLYLINES_DELAYS
               THEN DRAW_CRIT_PATH_ROUTING
               ELSE IF show_crit_path = DRAW_CRIT_PATH_ROUTING
               THEN DRAW_CRIT_PATH_ROUTING_DELAYS
               ELSE DRAW_NO_CRIT_PATH
    /\ LET redrawn == drawscreen(color, node_highlighted, net_color, show_nets,
                                 draw_rr_toggle)
       IN  /\ color' = redrawn.color
           /\ node_highlighted' = redrawn.hl
    /\ UNCHANGED <<rr_node, trace_head, net_color, show_nets, draw_rr_toggle, pc, hit_node,
                   toggled, routeVars, pathVars, hitVars, resetVars, pic_on_screen,
                   show_congestion, setup_timing_info, buttons, button_faults, untimed_call>>

\* draw_crit_path (lines 2748-2794): what it draws the edges of the path as.
draw_crit_path ==
    IF show_crit_path = DRAW_NO_CRIT_PATH \/ ~setup_timing_info THEN "nothing"
    ELSE IF show_crit_path \in {DRAW_CRIT_PATH_FLYLINES, DRAW_CRIT_PATH_FLYLINES_DELAYS}
    THEN "flylines"
    ELSE "routed"

NextScreen ==
    \/ \E pic_on_screen_val \in {PLACEMENT, ROUTING}, timing \in BOOLEAN :
          update_screen(pic_on_screen_val, timing)
    \/ ("Toggle Nets" \in buttons /\ toggle_nets)
    \/ ("Toggle RR" \in buttons /\ toggle_rr)
    \/ ("Congestion" \in buttons /\ toggle_congestion)
    \/ ("Crit. Path" \in buttons /\ toggle_crit_path)

SpecScreen == InitScreen /\ [][NextScreen]_vars

\* C24: over the update_screen calls with graphics enabled that alternate between
\* the placement and the routing picture and all bring timing info, no button is
\* created while it exists or destroyed while it does not exist.
C24_ButtonLifecycle ==
    (show_graphics /\ ~untimed_call) => button_faults = {}

\* C25: whenever the placement picture is on screen, show_crit_path is one of
\* DRAW_NO_CRIT_PATH, DRAW_CRIT_PATH_FLYLINES and DRAW_CRIT_PATH_FLYLINES_DELAYS,
\* so draw_crit_path does not draw routed edges over the placement.
C25_CritPathMatchesPicture ==
    pic_on_screen = PLACEMENT =>
        /\ show_crit_path \in {DRAW_NO_CRIT_PATH, DRAW_CRIT_PATH_FLYLINES,
                                 DRAW_CRIT_PATH_FLYLINES_DELAYS}
        /\ draw_crit_path # "routed"

\* The views that are not in their off state.
views_on ==
    (IF show_nets # DRAW_NO_NETS THEN {"nets"} ELSE {})
    \cup (IF draw_rr_toggle # DRAW_NO_RR THEN {"rr"} ELSE {})
    \cup (IF show_congestion # DRAW_NO_CONGEST THEN {"congestion"} ELSE {})

\* The next value of show_nets in the cycle of the Toggle Nets button.
next_show_nets ==
    [s \in {DRAW_NO_NETS, DRAW_NETS, DRAW_LOGICAL_CONNECTIONS} |->
        IF s = DRAW_NO_NETS THEN DRAW_NETS
        ELSE IF s = DRAW_NETS THEN DRAW_LOGICAL_CONNECTIONS
        ELSE DRAW_NO_NETS]

\* C26: each Toggle Nets press advances show_nets in the cycle DRAW_NO_NETS,
\* DRAW_NETS, DRAW_LOGICAL_CONNECTIONS, DRAW_NO_NETS and turns the drawing of
\* routing resources off; and after any sequence of toggle_nets, toggle_rr and
\* toggle_congestion presses at most one of show_nets, draw_rr_toggle and
\* show_congestion is not in its off state.
C26_ViewsMutuallyExclusive ==
    [][/\ toggle_nets => /\ show_nets' = next_show_nets[show_nets]
                          /\ draw_rr_toggle' = DRAW_NO_RR
       /\ Cardinality(views_on) <= 1 => Cardinality(views_on') <= 1]_vars

\* C26 witness: the congestion view is the one view on, reached by two presses of
\* its button, after the RR graph had been shown (its redraw left the OPIN PINK).
C26_Witness ==
    /\ views_on = {"congestion"}
    /\ show_congestion = DRAW_CONGESTED_AND_USED
    /\ \E n \in Node : color[n] = "PINK"

(***************************************************************************)
(* SpecToggle: update_screen called with any value of enum pic_type, and   *)
(* the presses of the three view buttons that exist.  A call with          *)
(* NO_PICTURE after a routing was shown changes the picture and leaves the *)
(* buttons in place (no branch of lines 189-215 is taken).                 *)
(***************************************************************************)
NextToggle ==
    \/ \E pic_on_screen_val \in {NO_PICTURE, PLACEMENT, ROUTING}, timing \in BOOLEAN :
          update_screen(pic_on_screen_val, timing)
    \/ ("Toggle Nets" \in buttons /\ toggle_nets)
    \/ ("Toggle RR" \in buttons /\ toggle_rr)
    \/ ("Congestion" \in buttons /\ toggle_congestion)

SpecToggle == InitScreen /\ [][NextToggle]_vars

\* C27: a call of toggle_rr while no routing is on screen leaves draw_rr_toggle as
\* it was; a call while a routing is on screen advances draw_rr_toggle by one,
\* cyclically through the DRAW_RR_TOGGLE_MAX options.
C27_ToggleRRGuard ==
    [][toggle_rr =>
          IF pic_on_screen # ROUTING
          THEN draw_rr_toggle' = draw_rr_toggle
          ELSE draw_rr_toggle' = (draw_rr_toggle + 1) % DRAW_RR_TOGGLE_MAX]_vars

\* The half of C27 about a routing on screen.
ToggleRRAdvances ==
    [][(toggle_rr /\ pic_on_screen = ROUTING) =>
          draw_rr_toggle' = (draw_rr_toggle + 1) % DRAW_RR_TOGGLE_MAX]_vars

\* Under SpecScreen, where update_screen is given PLACEMENT or ROUTING only, the
\* Toggle RR button exists exactly while a routing is on screen.
ToggleRRButtonOnlyWithRouting ==
    ("Toggle RR" \in buttons) <=> (pic_on_screen = ROUTING)

(***************************************************************************)
(* The tracks draw_partial_route passes on, checked under SpecRoute.       *)
(***************************************************************************)
\* The edge-drawing routines that are given track numbers.
track_edge_routines ==
    {"draw_chanx_to_chanx_edge", "draw_chany_to_chany_edge", "draw_chanx_to_chany_edge"}

\* The iterations of draw_partial_route's loop so far that called one of them.
track_edges_drawn ==
    {a \in 1 .. Len(drawn) :
        \E k \in 1 .. Len(drawn[a].calls) : drawn[a].calls[k] \in track_edge_routines}

\* C28: in the global view every track number draw_partial_route passes to an
\* edge-drawing routine, the node's own and for a cross-axis edge the previous
\* node's, is one the allocator assigned in the current pass, so it is >= 0 and
\* never the unassigned value -1, also when the sequence starts at a channel node.
C28_NoUnassignedTrack ==
    draw_route_type = "GLOBAL" =>
        \A a \in track_edges_drawn :
            \A k \in 1 .. Len(drawn[a].tracks) : drawn[a].tracks[k] >= 0

\* The same for the pairs whose previous node is not the first node of its
\* sequence: it has been through the loop and has a track of the current pass.
NoUnassignedTrackPastFirstPair ==
    draw_route_type = "GLOBAL" =>
        \A a \in track_edges_drawn :
            drawn[a].prev_node # handoffs[drawn[a].call][1] =>
                \A k \in 1 .. Len(drawn[a].tracks) : drawn[a].tracks[k] >= 0

\* The node's own track is assigned in every pair.
OwnTrackAssigned ==
    draw_route_type = "GLOBAL" =>
        \A a \in track_edges_drawn : drawn[a].tracks[1] >= 0

(***************************************************************************)
(* SpecCongestion: the Congestion button pressed over a routing whose      *)
(* nodes carry an occupancy and a capacity.  The graph has NumCongNodes    *)
(* nodes of any type, each with occ in 0 .. MaxOcc and capacity in         *)
(* 1 .. MaxCapacity, and no routed net.                                    *)
(***************************************************************************)
NumCongNodes == 2
MaxOcc == 2
MaxCapacity == 1

CongNode == 0 .. NumCongNodes - 1

cong_rr_nodes ==
    [CongNode -> [type : {"SOURCE", "SINK", "IPIN", "OPIN", "CHANX", "CHANY"},
                  xlow : {1}, ylow : {1}, xhigh : {1}, yhigh : {1}, ptc_num : {0},
                  edges : {<<>>}, occ : 0 .. MaxOcc, capacity : 1 .. MaxCapacity]]

\* congestion_ratio > 1. (lines 737-738): float(occ) / capacity is above one
\* exactly when occ is above capacity, both being shorts and capacity positive.
congestion_ratio_above_one(occ, capacity) == occ > capacity

\* The second loop of draw_congestion (lines 733-787) from node inode on: the
\* drawing calls it makes, in order.  congested_color is the colour the plasma
\* map gives the node's ratio.
RECURSIVE draw_congestion_from(_, _)
draw_congestion_from(inode, mode) ==
    IF inode >= num_rr_nodes THEN <<>>
    ELSE LET occ == rr_node[inode].occ
             capacity == rr_node[inode].capacity
             type == rr_node[inode].type
             routine == IF type = "CHANX" THEN "draw_rr_chanx"
                        ELSE IF type = "CHANY" THEN "draw_rr_chany"
                        ELSE "draw_rr_pin"
             call(c) == <<[inode |-> inode, routine |-> routine, color |-> c]>>
             here == IF congestion_ratio_above_one(occ, capacity)
                        /\ type \in {"CHANX", "CHANY", "IPIN", "OPIN"}
                     THEN IF mode = DRAW_CONGESTED /\ occ > capacity
                          THEN call("congested_color")
                          ELSE IF mode = DRAW_CONGESTED_AND_USED
                          THEN IF occ > capacity THEN call("congested_color")
                               ELSE call("BLUE")
                          ELSE <<>>
                     ELSE <<>>
         IN  here \o draw_congestion_from(inode + 1, mode)

draw_congestion(mode) == draw_congestion_from(0, mode)

InitCongestion ==
    /\ rr_node \in cong_rr_nodes
    /\ trace_head = <<>>
    /\ color = [n \in CongNode |-> DEFAULT_RR_NODE_COLOR]
    /\ node_highlighted = [n \in CongNode |-> FALSE]
    /\ net_color = <<>>
    /\ show_nets = DRAW_NO_NETS
    /\ draw_rr_toggle = DRAW_NO_RR
    /\ pc = "idle"
    /\ hit_node = OPEN
    /\ toggled = NoToggle
    /\ RouteIdle
    /\ PathIdle
    /\ HitIdle
    /\ ResetIdle
    /\ RoutingOnScreen

\* A press of the Congestion button: toggle_congestion (lines 387-415) and the
\* redraw it ends in, whose last step in the routing picture is draw_congestion
\* unless the view is off (lines 330-332).  drawn is what draw_congestion drew.
congestion_pressed ==
    /\ pc = "idle"
    /\ LET new_state == (show_congestion + 1) % DRAW_CONGEST_MAX
           reset == reset_nets_congestion_and_rr
           redrawn == drawscreen(color, node_highlighted, net_color,
                                 reset.show_nets, reset.draw_rr_toggle)
       IN  /\ show_nets' = reset.show_nets
           /\ draw_rr_toggle' = reset.draw_rr_toggle
           /\ show_congestion' = new_state
           /\ color' = redrawn.color
           /\ node_highlighted' = redrawn.hl
           /\ drawn' = IF pic_on_screen # PLACEMENT /\ new_state # DRAW_NO_CONGEST
                       THEN draw_congestion(new_state)
                       ELSE <<>>
    /\ toggled' = NoToggle
    /\ UNCHANGED <<pathVars, hitVars, resetVars, toggleFrame, rr_node, trace_head, net_color,
                   pc, hit_node, draw_route_type, rt_pc, tptr, rr_nodes_to_draw, partial,
                   part_i, chanx_track, chany_track, handoffs>>

NextCongestion == congestion_pressed

SpecCongestion == InitCongestion /\ [][NextCongestion]_vars

\* The nodes draw_congestion drew in colour c.
drawn_in(c) == {drawn[k].inode : k \in {j \in 1 .. Len(drawn) : drawn[j].color = c}}

\* The nodes of the four types the congestion view covers.
congestion_nodes == {n \in Node : rr_node[n].type \in {"CHANX", "CHANY", "IPIN", "OPIN"}}

overused_nodes == {n \in congestion_nodes : rr_node[n].occ > rr_node[n].capacity}

used_nodes ==
    {n \in congestion_nodes : 0 < rr_node[n].occ /\ rr_node[n].occ <= rr_node[n].capacity}

\* C29: in the congested-and-used view draw_congestion draws every overused
\* CHANX, CHANY, IPIN and OPIN node in its congestion colour and every such node
\* that is used but not overused in BLUE; in the congested view it draws exactly
\* the overused nodes.
C29_CongestedAndUsedView ==
    /\ show_congestion = DRAW_CONGESTED_AND_USED =>
          /\ overused_nodes \subseteq drawn_in("congested_color")
          /\ used_nodes \subseteq drawn_in("BLUE")
    /\ show_congestion = DRAW_CONGESTED =>
          {drawn[k].inode : k \in 1 .. Len(drawn)} = overused_nodes

\* The half of C29 that does not depend on the BLUE branch: the overused nodes
\* are drawn in their congestion colour in both views, and the congested view
\* draws nothing else.
OverusedNodesDrawn ==
    /\ show_congestion # DRAW_NO_CONGEST =>
          drawn_in("congested_color") = overused_nodes
    /\ show_congestion = DRAW_CONGESTED =>
          {drawn[k].inode : k \in 1 .. Len(drawn)} = overused_nodes

\* draw_congestion never draws in BLUE.
NothingDrawnBlue == drawn_in("BLUE") = {}
====
